---------------------------- MODULE Spec2Model ----------------------------
(***************************************************************************)
(* A model of the monitoring core of PostgreSQL_Real_Time_Monitor:         *)
(*   AlertSystem     (src/src/AlertSystem.cpp)     the bounded alert store *)
(*   QueryEngine     (src/src/QueryEngine.cpp)     the tick scheduler      *)
(*   DatabaseManager (src/src/DatabaseManager.cpp) the connection manager  *)
(*                                                                         *)
(* Time is the wall clock read by QDateTime::currentDateTime(), counted in *)
(* seconds and assumed not to run backwards.                               *)
(***************************************************************************)
EXTENDS Integers, Sequences, FiniteSets, TLC

VARIABLES
    now,                         \* QDateTime::currentDateTime(), in seconds
    alerts_,                     \* AlertSystem::alerts_ (oldest first)
    nextAlertId_,                \* AlertSystem::nextAlertId_
    duplicateDetectionEnabled_,  \* AlertSystem::duplicateDetectionEnabled_
    duplicateTimeWindow_,        \* AlertSystem::duplicateTimeWindow_
    maxAlerts_,                  \* AlertSystem::maxAlerts_
    lastOp,                      \* observation: the last AlertSystem call, its arguments and result
    accepted,                    \* observation: the alerts accepted so far, in creation order
    sinceReset,                  \* observation: accepted appends since capacity last changed or alerts were removed by hand
    relock,                      \* what locking connectionMutex_ does in a thread that already holds it
    mutexStuck,                  \* a thread blocked for ever while holding connectionMutex_
    mainBlocked,                 \* the main (event loop) thread is blocked for ever
    crashed,                     \* an exception escaped from the main thread: the process terminated
    backendUp,                   \* the database server accepts connections and answers
    connection_,                 \* DatabaseManager::connection_: "none" or "open"
    isConnected_,                \* DatabaseManager::isConnected_
    config_,                     \* DatabaseManager::config_: "valid" or "invalid"
    lastError_,                  \* DatabaseManager::lastError_
    autoReconnectEnabled_,       \* DatabaseManager::autoReconnectEnabled_
    connectionAttemptCount_,     \* DatabaseManager::connectionAttemptCount_
    reconnectTimerActive,        \* DatabaseManager::reconnectTimer_ is running (single shot)
    queuedReconnects,            \* attemptReconnect invocations queued on the main thread
    loop,                        \* observation: the current auto-reconnect loop
    lastCall,                    \* observation: the last DatabaseManager call and how it ended
    queries_,                    \* QueryEngine::queries_
    isMonitoring_,               \* QueryEngine::isMonitoring_
    timerActive,                 \* QueryEngine::timer_ is running
    engineCall,                  \* observation: the last start, stop or connection notification of
                                 \* the engine and the signals it emitted
    totalExecutions_,            \* QueryEngine::totalExecutions_
    totalFailures_,              \* QueryEngine::totalFailures_
    queryExecutionCounts_,       \* QueryEngine::queryExecutionCounts_
    maxConcurrentQueries_,       \* QueryEngine::maxConcurrentQueries_
    queryHistory_,               \* QueryEngine::queryHistory_
    workers,                     \* the QueryWorker objects whose thread has not finished
    completions,                 \* completed(result) signals queued for onQueryCompleted
    queuedStatus,                \* connectionStatusChanged signals queued for the main thread
    lastDone,                    \* observation: the last result onQueryCompleted handled
    run,                         \* observation: the ticks and results of the monitoring run so far
    statusSeen,                  \* observation: the connectionStatusChanged events emitted so far
    classified,                  \* observation: the last classification, its inputs and its answer
    mx,                          \* the engine's and the store's mutexes: the owner of each, and where each
                                 \* thread is in its call
    lk                           \* the locks: who owns each mutex, and where each thread is in its call

storeVars == <<alerts_, nextAlertId_, duplicateDetectionEnabled_, duplicateTimeWindow_, maxAlerts_>>
obsVars == <<lastOp, accepted, sinceReset>>
connVars == <<relock, mutexStuck, mainBlocked, crashed, backendUp, connection_, isConnected_, config_,
              lastError_, autoReconnectEnabled_, connectionAttemptCount_, reconnectTimerActive,
              queuedReconnects, loop, lastCall>>
schedVars == <<isMonitoring_, timerActive, engineCall>>
engVars == <<queries_, schedVars, totalExecutions_, totalFailures_, queryExecutionCounts_,
                   maxConcurrentQueries_, queryHistory_, workers,
             completions, queuedStatus, lastDone, run>>
traceVars == <<statusSeen, lk, classified, mx>>
vars == <<now, storeVars, obsVars, connVars, engVars, traceVars>>

---------------------------------------------------------------------------
(* Bounds of the model *)

\* the clock runs from 0 to MaxTime
MaxTime == 2
\* at most MaxAppends addAlert calls are accepted under Spec
MaxAppends == 2
\* accepted appends before the read operations of SpecQuery
MaxQueryAppends == 3
\* at most MaxCapAppends addAlert calls are accepted under SpecCap
MaxCapAppends == 3
\* connect() is called at most MaxAttempts times
MaxAttempts == 2
\* at most MaxQueued attemptReconnect invocations wait in the event queue
MaxQueued == 2
\* a retry loop is followed for MaxRetries failed retries
MaxRetries == 2
\* the monitoring timer fires at most MaxTicks times
MaxTicks == 3
\* at most MaxWorkers worker threads are unfinished at a time
MaxWorkers == 2

---------------------------------------------------------------------------
(* Program constants *)

\* AlertSystem::AlertSystem(): duplicateTimeWindow_(30)
DefaultDuplicateTimeWindow == 30
\* AlertSystem::AlertSystem(): maxAlerts_(1000)
DefaultMaxAlerts == 1000
\* AlertSystem::getRecentAlerts(int maxCount = 100)
DefaultMaxCount == 100
\* addAlert's "duplicate alert not added" return value
NotAdded == -1

\* QueryEngine::MAX_QUERY_HISTORY
DefaultMaxConcurrentQueries == 5
MAX_QUERY_HISTORY == 100
\* the age in seconds beyond which cleanupQueryHistory drops an entry
HistoryKeepSeconds == 60
\* the default timeWindowSeconds of isRecentDuplicate
HistoryWindowSeconds == 5
\* QueryEngine::interval_ (1000 ms) in seconds
IntervalSeconds == 1

---------------------------------------------------------------------------
(* Inputs *)

AlertTypes == {"CRITICAL", "WARNING", "INFO"}

\* an alert as handed to addAlert: the caller fills type, title, message, querySource
MkAlert(ty, ti, me, qs) == [type |-> ty, title |-> ti, message |-> me, querySource |-> qs]

BaseAlert == MkAlert("WARNING", "t1", "m1", "q1")
\* the base alert and four alerts that differ from it in exactly one field
AlertInputs ==
    { BaseAlert,
      MkAlert("CRITICAL", "t1", "m1", "q1"),
      MkAlert("WARNING", "t2", "m1", "q1"),
      MkAlert("WARNING", "t1", "m2", "q1"),
      MkAlert("WARNING", "t1", "m1", "q2") }

\* the inputs of the capacity scenarios: two alerts of different content
CapAlertInputs == { BaseAlert, MkAlert("WARNING", "t1", "m2", "q1") }

WindowInputs == {0, 1}
MaxAlertsInputs == {0, 1, 2}
MaxCountInputs == {1, 2, DefaultMaxCount}
MaxAgeInputs == {0, 1}

---------------------------------------------------------------------------
(* AlertSystem: helpers *)

\* alerts_.size() > static_cast<size_t>(limit): a negative limit converts to a value
\* above every possible size (2^64 + limit), so the comparison is false
ExceedsLimit(size, limit) == limit >= 0 /\ size > limit

\* variant: the comparison of isSimilar (no message) used for exact duplicates
SameContent_noMessage(e, a) ==
    /\ e.type = a.type
    /\ e.querySource = a.querySource
    /\ e.title = a.title

\* the four fields isDuplicateInternal compares
SameContent(e, a) ==
    /\ e.type = a.type
    /\ e.querySource = a.querySource
    /\ e.title = a.title
    /\ e.message = a.message

\* variant: an entry exactly at the cutoff is skipped too
OlderThanCutoff_inclusive(e, t, window) == e.timestamp <= t - window
\* variant: no entry is ever skipped for its age
OlderThanCutoff_never(e, t, window) == FALSE

\* existingAlert.timestamp < cutoff, cutoff = now - window: the entry is skipped
OlderThanCutoff(e, t, window) == e.timestamp < t - window

isDuplicateInternal(store, a, t, window) ==
    \E i \in 1..Len(store) :
        /\ ~OlderThanCutoff(store[i], t, window)
        /\ SameContent(store[i], a)

\* variant: the newest entries are erased instead of the oldest
removeOldestAlerts_newest(store, removeCount) ==
    IF removeCount <= 0 THEN store
    ELSE IF removeCount >= Len(store) THEN <<>>
    ELSE SubSeq(store, 1, Len(store) - removeCount)

removeOldestAlerts(store, removeCount) ==
    IF removeCount <= 0 THEN store
    ELSE IF removeCount >= Len(store) THEN <<>>
    ELSE SubSeq(store, removeCount + 1, Len(store))

\* if (alerts_.size() > static_cast<size_t>(maxAlerts)) removeOldestAlerts(alerts_.size() - maxAlerts)
EnforceLimit(store, limit) ==
    IF ExceedsLimit(Len(store), limit) THEN removeOldestAlerts(store, Len(store) - limit) ELSE store

\* variant: the counter is read but not incremented
NextIdAfter_stuck(id) == id

\* newAlert.id = nextAlertId_++
NextIdAfter(id) == id + 1

\* the alert addAlert stores
NewAlert(a, id, t) ==
    [id |-> id, type |-> a.type, title |-> a.title, message |-> a.message,
     querySource |-> a.querySource, timestamp |-> t]

RECURSIVE TakeNewest(_, _)
\* getRecentAlerts: walk from the newest, insert each at the front of the result
TakeNewest(store, maxCount) ==
    IF Len(store) = 0 \/ maxCount <= 0 THEN <<>>
    ELSE Append(TakeNewest(SubSeq(store, 1, Len(store) - 1), maxCount - 1), store[Len(store)])

RECURSIVE RemoveOlder(_, _)
\* std::remove_if(alert.timestamp < cutoff) + erase
RemoveOlder(store, cutoff) ==
    IF store = <<>> THEN <<>>
    ELSE IF Head(store).timestamp < cutoff THEN RemoveOlder(Tail(store), cutoff)
    ELSE <<Head(store)>> \o RemoveOlder(Tail(store), cutoff)

---------------------------------------------------------------------------
(* Observations *)

NoAlert == MkAlert("INFO", "", "", "")
\* fn: the function; typeStr, cells, rows, threshold, defaultType: its arguments; out: its answer
NoClassified ==
    [fn |-> "none", typeStr |-> <<>>, cells |-> <<>>, rows |-> <<>>, threshold |-> 0,
     defaultType |-> "INFO", out |-> "INFO"]
\* op: the call; alert, arg: its arguments; ret, out: what it returned; at: when it ran
NoOp == [op |-> "none", alert |-> NoAlert, arg |-> 0, ret |-> 0, out |-> <<>>, at |-> 0]
Obs(op, a, arg, ret, out) ==
    [op |-> op, alert |-> a, arg |-> arg, ret |-> ret, out |-> out, at |-> now]

---------------------------------------------------------------------------
(* AlertSystem: operations. Each sets the store and lastOp; the clock and the *)
(* other observations are set by the specification that uses the operation.   *)

StoreInit ==
    /\ now = 0
    /\ alerts_ = <<>>
    /\ nextAlertId_ = 1
    /\ duplicateDetectionEnabled_ = TRUE
    /\ duplicateTimeWindow_ = DefaultDuplicateTimeWindow
    /\ maxAlerts_ = DefaultMaxAlerts
    /\ lastOp = NoOp
    /\ accepted = <<>>
    /\ sinceReset = 0

\* addAlert had it drawn the identifier before asking isDuplicateInternal
addAlert_idConsumed(a) ==
    /\ nextAlertId_' = NextIdAfter(nextAlertId_)
    /\ IF duplicateDetectionEnabled_ /\ isDuplicateInternal(alerts_, a, now, duplicateTimeWindow_)
       THEN /\ lastOp' = Obs("addAlert", a, 0, NotAdded, <<>>)
            /\ UNCHANGED alerts_
       ELSE LET new == NewAlert(a, nextAlertId_, now)
            IN /\ alerts_' = EnforceLimit(Append(alerts_, new), maxAlerts_)
               /\ lastOp' = Obs("addAlert", a, 0, new.id, <<>>)
    /\ UNCHANGED <<duplicateDetectionEnabled_, duplicateTimeWindow_, maxAlerts_>>

\* int AlertSystem::addAlert(const Alert& alert)
addAlert(a) ==
    /\ IF duplicateDetectionEnabled_ /\ isDuplicateInternal(alerts_, a, now, duplicateTimeWindow_)
       THEN /\ lastOp' = Obs("addAlert", a, 0, NotAdded, <<>>)
            /\ UNCHANGED <<alerts_, nextAlertId_>>
       ELSE LET new == NewAlert(a, nextAlertId_, now)
            IN /\ nextAlertId_' = NextIdAfter(nextAlertId_)
               /\ alerts_' = EnforceLimit(Append(alerts_, new), maxAlerts_)
               /\ lastOp' = Obs("addAlert", a, 0, new.id, <<>>)
    /\ UNCHANGED <<duplicateDetectionEnabled_, duplicateTimeWindow_, maxAlerts_>>

\* bool AlertSystem::isDuplicate(const Alert& alert, int timeWindowSeconds):
\* swaps the window in, asks isDuplicateInternal, swaps it back
isDuplicate(a, timeWindowSeconds) ==
    /\ lastOp' = Obs("isDuplicate", a, timeWindowSeconds,
                     IF isDuplicateInternal(alerts_, a, now, timeWindowSeconds) THEN 1 ELSE 0, <<>>)
    /\ UNCHANGED storeVars

\* std::vector<Alert> AlertSystem::getRecentAlerts(int maxCount)
getRecentAlerts(maxCount) ==
    /\ lastOp' = Obs("getRecentAlerts", NoAlert, maxCount, 0, TakeNewest(alerts_, maxCount))
    /\ UNCHANGED storeVars

\* the three fields AlertSystem::isSimilar compares
SimilarContent(e, a) ==
    /\ e.type = a.type
    /\ e.querySource = a.querySource
    /\ e.title = a.title

\* bool AlertSystem::isSimilar(const Alert& alert, int timeWindowSeconds)
isSimilar(a, timeWindowSeconds) ==
    /\ lastOp' = Obs("isSimilar", a, timeWindowSeconds,
                     IF \E i \in 1..Len(alerts_) :
                            /\ ~(alerts_[i].timestamp < now - timeWindowSeconds)
                            /\ SimilarContent(alerts_[i], a)
                     THEN 1 ELSE 0, <<>>)
    /\ UNCHANGED storeVars

RECURSIVE TakeNewestOfType(_, _, _)
\* getAlertsByType: walk from the newest, insert each alert of the type at the
\* front of the result, until maxCount are taken
TakeNewestOfType(store, type, maxCount) ==
    IF Len(store) = 0 \/ maxCount <= 0 THEN <<>>
    ELSE IF store[Len(store)].type = type
    THEN Append(TakeNewestOfType(SubSeq(store, 1, Len(store) - 1), type, maxCount - 1),
                store[Len(store)])
    ELSE TakeNewestOfType(SubSeq(store, 1, Len(store) - 1), type, maxCount)

\* std::vector<Alert> AlertSystem::getAlertsByType(AlertType type, int maxCount)
getAlertsByType(type, maxCount) ==
    /\ lastOp' = Obs("getAlertsByType", MkAlert(type, "", "", ""), maxCount, 0,
                     TakeNewestOfType(alerts_, type, maxCount))
    /\ UNCHANGED storeVars

RECURSIVE InsertedSince(_, _)
\* getAlertsSince: walk from the oldest, insert each alert with timestamp >= since
\* at the front of the result
InsertedSince(store, since) ==
    IF store = <<>> THEN <<>>
    ELSE IF Head(store).timestamp >= since
    THEN Append(InsertedSince(Tail(store), since), Head(store))
    ELSE InsertedSince(Tail(store), since)

\* std::vector<Alert> AlertSystem::getAlertsSince(const QDateTime& since)
getAlertsSince(since) ==
    /\ lastOp' = Obs("getAlertsSince", NoAlert, since, 0, InsertedSince(alerts_, since))
    /\ UNCHANGED storeVars

\* void AlertSystem::cleanupOldAlerts(int maxAgeSeconds)
cleanupOldAlerts(maxAgeSeconds) ==
    /\ alerts_' = RemoveOlder(alerts_, now - maxAgeSeconds)
    /\ lastOp' = Obs("cleanupOldAlerts", NoAlert, maxAgeSeconds, 0, <<>>)
    /\ UNCHANGED <<nextAlertId_, duplicateDetectionEnabled_, duplicateTimeWindow_, maxAlerts_>>

\* void AlertSystem::enforceMaxAlerts(int maxAlerts); enforceMaxAlerts(0) is the window's "clear all"
enforceMaxAlerts(maxAlerts) ==
    /\ alerts_' = EnforceLimit(alerts_, maxAlerts)
    /\ lastOp' = Obs("enforceMaxAlerts", NoAlert, maxAlerts, 0, <<>>)
    /\ UNCHANGED <<nextAlertId_, duplicateDetectionEnabled_, duplicateTimeWindow_, maxAlerts_>>

\* void AlertSystem::setDuplicateDetectionEnabled(bool enabled)
setDuplicateDetectionEnabled(enabled) ==
    /\ duplicateDetectionEnabled_' = enabled
    /\ lastOp' = Obs("setDuplicateDetectionEnabled", NoAlert, 0, 0, <<>>)
    /\ UNCHANGED <<alerts_, nextAlertId_, duplicateTimeWindow_, maxAlerts_>>

\* void AlertSystem::setDuplicateTimeWindow(int seconds)
setDuplicateTimeWindow(seconds) ==
    /\ duplicateTimeWindow_' = seconds
    /\ lastOp' = Obs("setDuplicateTimeWindow", NoAlert, 0, 0, <<>>)
    /\ UNCHANGED <<alerts_, nextAlertId_, duplicateDetectionEnabled_, maxAlerts_>>

\* void AlertSystem::setMaxAlerts(int maxAlerts)
setMaxAlerts(maxAlerts) ==
    /\ maxAlerts_' = maxAlerts
    /\ lastOp' = Obs("setMaxAlerts", NoAlert, 0, 0, <<>>)
    /\ UNCHANGED <<alerts_, nextAlertId_, duplicateDetectionEnabled_, duplicateTimeWindow_>>

\* the wall clock advances by one second
ClockTick ==
    /\ now < MaxTime
    /\ now' = now + 1
    /\ UNCHANGED <<storeVars, obsVars, connVars, engVars, traceVars>>

---------------------------------------------------------------------------
(* The locking discipline. Each call is the sequence of lock, unlock, read and *)
(* write steps its code performs, in program order, with the calls it makes    *)
(* inlined; std::lock_guard locks where it is declared and unlocks at the end  *)
(* of the function. Values are left out: only who holds what, when, matters.   *)

Threads == {"main", "worker1", "worker2"}
connectionMutex_ == "connectionMutex_"

Lock(m) == [k |-> "lock", m |-> m, f |-> ""]
Unlock(m) == [k |-> "unlock", m |-> m, f |-> ""]
\* a read or a write of field f, which mutex m is meant to guard
Read(m, f) == [k |-> "read", m |-> m, f |-> f]
Write(m, f) == [k |-> "write", m |-> m, f |-> f]
ReadC(f) == Read(connectionMutex_, f)
WriteC(f) == Write(connectionMutex_, f)

\* bool DatabaseManager::isConnected() const
isConnected_steps ==
    <<Lock(connectionMutex_), ReadC("isConnected_"), ReadC("connection_"), Unlock(connectionMutex_)>>
\* DatabaseConfig DatabaseManager::getConnectionConfig() const
getConnectionConfig_steps == <<Lock(connectionMutex_), ReadC("config_"), Unlock(connectionMutex_)>>
\* bool DatabaseManager::createConnection(), through buildConnectionString()
createConnection_steps ==
    getConnectionConfig_steps \o <<WriteC("connection_"), WriteC("isConnected_"), WriteC("lastError_")>>
\* void DatabaseManager::updateConnectionStatus(bool)
updateConnectionStatus_steps == <<ReadC("isConnected_"), WriteC("isConnected_")>>
\* void DatabaseManager::disconnect()
disconnect_steps ==
    <<Lock(connectionMutex_), ReadC("connection_"), WriteC("connection_")>>
    \o updateConnectionStatus_steps \o <<Unlock(connectionMutex_)>>
\* bool DatabaseManager::reconnect()
reconnect_steps ==
    <<Lock(connectionMutex_)>> \o disconnect_steps \o createConnection_steps \o <<Unlock(connectionMutex_)>>
\* bool DatabaseManager::connect(const DatabaseConfig&), through validateDatabaseConfig()
connect_steps ==
    <<Lock(connectionMutex_)>> \o getConnectionConfig_steps
    \o <<WriteC("config_"), ReadC("connectionAttemptCount_"), WriteC("connectionAttemptCount_")>>
    \o createConnection_steps \o updateConnectionStatus_steps \o <<Unlock(connectionMutex_)>>
\* pqxx::result DatabaseManager::executeQuery(query), on the path of a backend failure
executeQuery_steps ==
    <<Lock(connectionMutex_)>> \o isConnected_steps
    \o <<ReadC("connection_"), WriteC("lastError_")>> \o updateConnectionStatus_steps
    \o <<Unlock(connectionMutex_)>>
\* bool DatabaseManager::pingConnection(), on the path of a failed ping
pingConnection_steps ==
    <<Lock(connectionMutex_)>> \o isConnected_steps
    \o <<ReadC("connection_"), ReadC("connection_")>> \o updateConnectionStatus_steps
    \o <<Unlock(connectionMutex_)>>
\* void DatabaseManager::attemptReconnect(), on the path of a successful reconnect
attemptReconnect_steps ==
    <<ReadC("connectionAttemptCount_")>> \o reconnect_steps \o <<WriteC("connectionAttemptCount_")>>
\* int DatabaseManager::getConnectionAttemptCount() const
getConnectionAttemptCount_steps == <<ReadC("connectionAttemptCount_")>>
\* std::string DatabaseManager::getLastError() const
getLastError_steps == <<Lock(connectionMutex_), ReadC("lastError_"), Unlock(connectionMutex_)>>

\* the calls the main thread makes, and the calls a QueryWorker thread makes
Steps(op) ==
    CASE op = "connect" -> connect_steps
      [] op = "disconnect" -> disconnect_steps
      [] op = "reconnect" -> reconnect_steps
      [] op = "pingConnection" -> pingConnection_steps
      [] op = "attemptReconnect" -> attemptReconnect_steps
      [] op = "getConnectionAttemptCount" -> getConnectionAttemptCount_steps
      [] op = "getLastError" -> getLastError_steps
      [] op = "isConnected" -> isConnected_steps
      [] op = "executeQuery" -> executeQuery_steps
CallsOf(t) ==
    IF t = "main"
    THEN {"connect", "disconnect", "reconnect", "pingConnection", "attemptReconnect",
          "getConnectionAttemptCount", "getLastError", "isConnected"}
    ELSE {"isConnected", "executeQuery"}

\* a thread: the call it is in, the steps left, the lock_guards it has alive, and
\* whether it is "idle", "running", "hung" on its own lock or "threw" out of its call
IdleThread == [op |-> "", rest |-> <<>>, guards |-> 0, at |-> "idle"]
NoAccess == [t |-> "", f |-> "", k |-> "", held |-> TRUE]
\* owner, count: the thread that holds connectionMutex_ and how often it locked it;
\* access: the last read or write, and whether its thread held the mutex
NoLocks == [owner |-> "", count |-> 0, th |-> [t \in Threads |-> IdleThread], access |-> NoAccess]

\* the mutexes of the engine and of the alert store, and the threads that call them
queriesMutex_ == "queriesMutex_"
statsMutex_ == "statsMutex_"
historyMutex_ == "historyMutex_"
alertsMutex_ == "alertsMutex_"
EngineMutexes == {queriesMutex_, statsMutex_, historyMutex_, alertsMutex_}
EngineThreads == {"main", "reader"}
\* a statement f of a call
Do(f) == [k |-> "do", m |-> "", f |-> f]
\* a thread of the engine: the call it is in, the result it handles, the steps left
\* and the statistics as they were when the call began
NoStats == [total |-> 0, failures |-> 0, counts |-> <<>>]
IdleEngineThread == [op |-> "", r |-> <<>>, rest |-> <<>>, before |-> NoStats]
\* owner: the thread that holds each mutex; done: the completions handled to the end
NoEngineLocks ==
    [owner |-> [m \in EngineMutexes |-> ""], th |-> [t \in EngineThreads |-> IdleEngineThread], done |-> 0]

\* thread t enters a call
ThreadCalls(t, op) ==
    /\ lk.th[t].at \in {"idle", "threw"}
    /\ lk' = [lk EXCEPT !.th[t] = [op |-> op, rest |-> Steps(op), guards |-> 0, at |-> "running"]]

\* what is left of thread t after the step at the head of its call
Advanced(th, g) ==
    [th EXCEPT !.rest = Tail(@), !.guards = g, !.at = IF Len(th.rest) = 1 THEN "idle" ELSE "running"]

\* thread t performs the next step of its call
ThreadSteps(t) ==
    LET th == lk.th[t]
        i == Head(th.rest)
    IN /\ th.at = "running"
       /\ CASE i.k = "lock" /\ lk.owner = "" ->
                 lk' = [lk EXCEPT !.owner = t, !.count = 1, !.th[t] = Advanced(th, th.guards + 1)]
            [] i.k = "lock" /\ lk.owner = t /\ relock = "proceed" ->
                 lk' = [lk EXCEPT !.count = @ + 1, !.th[t] = Advanced(th, th.guards + 1)]
            [] i.k = "lock" /\ lk.owner = t /\ relock = "hang" ->
                 lk' = [lk EXCEPT !.th[t].at = "hung"]
            [] i.k = "lock" /\ lk.owner = t /\ relock = "throw" ->
                 \* std::system_error unwinds the call: its lock_guards unlock
                 lk' = [lk EXCEPT !.owner = "", !.count = 0,
                                  !.th[t] = [op |-> th.op, rest |-> <<>>, guards |-> 0, at |-> "threw"]]
            [] i.k = "lock" /\ lk.owner \notin {"", t} ->
                 FALSE
            [] i.k = "unlock" ->
                 lk' = [lk EXCEPT !.count = @ - 1, !.owner = IF lk.count = 1 THEN "" ELSE @,
                                  !.th[t] = Advanced(th, th.guards - 1)]
            [] i.k \in {"read", "write"} ->
                 lk' = [lk EXCEPT !.access = [t |-> t, f |-> i.f, k |-> i.k, held |-> lk.owner = t],
                                  !.th[t] = Advanced(th, th.guards)]

---------------------------------------------------------------------------
(* DatabaseManager. Every operation takes connectionMutex_, a non-recursive    *)
(* std::mutex, for its whole body, so operations of different threads are      *)
(* serialized and each is one step. connect, reconnect, executeQuery and       *)
(* pingConnection lock the mutex again while holding it (through               *)
(* validateDatabaseConfig, disconnect, isConnected, buildConnectionString):    *)
(* undefined behaviour, whose outcome `relock` a build fixes: the second lock  *)
(* is granted ("proceed"), blocks for ever ("hang"), or throws                 *)
(* std::system_error ("throw").                                                *)

RelockOutcomes == {"proceed", "hang", "throw"}
\* what() of the exception libpqxx throws when the backend refuses
BackendError == "backend error"
ConfigInputs == {"valid", "invalid"}

\* The retry loop being followed. active: an execution failure started it and neither a
\* successful retry nor a connect, disconnect, reconnect or enableAutoReconnect(false)
\* command has ended it; done: it ended with a successful retry; fails: failed retries; attempts:
\* reconnectionAttempt events; peak: the largest attempt counter seen; statusTrue:
\* connectionStatusChanged(true) events; after: the attempt counter at the end
NoLoop == [active |-> FALSE, done |-> FALSE, fails |-> 0, attempts |-> 0, peak |-> 0,
           statusTrue |-> 0, after |-> 0]
\* op: the call; ok: its return value (or a result for executeQuery); err: the
\* exception it threw; status, attempts: the connectionStatusChanged and
\* reconnectionAttempt events it emitted, in order; errs: connectionError events
NoCall == [op |-> "none", ok |-> FALSE, err |-> "", status |-> <<>>, attempts |-> <<>>, errs |-> 0]
Call(op, ok, err, status, attempts, errs) ==
    [op |-> op, ok |-> ok, err |-> err, status |-> status, attempts |-> attempts, errs |-> errs]

\* The connectionStatusChanged events seen. last: the value of the latest one;
\* repeated: some event carried the value of the event before it
NoStatus == [last |-> "none", repeated |-> FALSE]
RECURSIVE SeenAfter(_, _)
SeenAfter(seen, signals) ==
    IF signals = <<>> THEN seen
    ELSE LET v == IF Head(signals) THEN "true" ELSE "false"
         IN SeenAfter([last |-> v, repeated |-> seen.repeated \/ seen.last = v], Tail(signals))

\* the state DatabaseManager::DatabaseManager() leaves; auto: whether
\* enableAutoReconnect(true) has been called since
ConnFields(auto) ==
    /\ mutexStuck = FALSE
    /\ mainBlocked = FALSE
    /\ crashed = FALSE
    /\ connection_ = "none"
    /\ isConnected_ = FALSE
    /\ lastError_ = ""
    /\ autoReconnectEnabled_ = auto
    /\ connectionAttemptCount_ = 0
    /\ reconnectTimerActive = FALSE
    /\ queuedReconnects = 0
    /\ loop = NoLoop
    /\ lastCall = NoCall

\* the connection manager as the alert store specifications leave it: untouched
ConnIdle ==
    /\ ConnFields(FALSE)
    /\ statusSeen = NoStatus
    /\ classified = NoClassified
    /\ lk = NoLocks
    /\ mx = NoEngineLocks
    /\ relock = "proceed"
    /\ backendUp = TRUE
    /\ config_ = "valid"

ConnInit ==
    /\ ConnFields(FALSE)
    /\ statusSeen = NoStatus
    /\ classified = NoClassified
    /\ lk = NoLocks
    /\ mx = NoEngineLocks
    /\ relock \in RelockOutcomes
    /\ backendUp \in BOOLEAN
    /\ config_ \in ConfigInputs

\* bool DatabaseManager::isConnected() const (is_open() holds for a handle that exists)
isConnected == isConnected_ /\ connection_ = "open"

\* retries waiting to run: queued attemptReconnect invocations and the armed timer
PendingRetries == queuedReconnects + (IF reconnectTimerActive THEN 1 ELSE 0)

\* the main thread can run a handler
MainRuns == ~mainBlocked /\ ~crashed

\* updateConnectionStatus(connected) with isConnected_ = was: the events it emits
StatusEvents(was, connected) == IF was # connected THEN <<connected>> ELSE <<>>

\* DatabaseManager::createConnection(): what it leaves in connection_, isConnected_
\* and lastError_ and what it returns, given the backend and the liveness probe
createConnection(conn, connected, cfg, up, probeOk) ==
    IF ~up \/ cfg = "invalid"
    THEN \* the pqxx::connection constructor throws: connection_ is not assigned
         [conn |-> conn, connected |-> connected, err |-> "Connection failed: " \o BackendError, ok |-> FALSE]
    ELSE IF probeOk
    THEN [conn |-> "open", connected |-> TRUE, err |-> "", ok |-> TRUE]
    ELSE \* isConnected_ = true and lastError_.clear() ran before the probe threw
         [conn |-> "open", connected |-> TRUE, err |-> "Connection failed: " \o BackendError, ok |-> FALSE]

\* a call that reaches a lock it cannot get blocks its thread for ever
\* (stuck: the mutex is held for ever by another thread, or by this one)
Blocks(op, main, attempts) ==
    /\ mutexStuck' = (mutexStuck \/ relock = "hang")
    /\ mainBlocked' = (mainBlocked \/ main)
    /\ lastCall' = Call(op, FALSE, "blocked", <<>>, attempts, 0)
    /\ UNCHANGED <<crashed, connection_, isConnected_, config_, lastError_, connectionAttemptCount_>>

\* a call that locks the mutex it holds, in a build where that throws std::system_error;
\* on the main thread nothing catches it
Throws(op, main, attempts) ==
    /\ crashed' = (crashed \/ main)
    /\ lastCall' = Call(op, FALSE, "system_error", <<>>, attempts, 0)
    /\ UNCHANGED <<mutexStuck, mainBlocked, connection_, isConnected_, config_, lastError_,
                   connectionAttemptCount_>>

\* the call cannot take the mutex, or re-locks it in a build where that does not proceed
CannotProceed == mutexStuck \/ relock # "proceed"
Stops(op, main, attempts) ==
    IF mutexStuck \/ relock = "hang" THEN Blocks(op, main, attempts) ELSE Throws(op, main, attempts)

\* bool DatabaseManager::connect(const DatabaseConfig& config)
connect(c, probeOk) ==
    /\ MainRuns
    /\ IF CannotProceed
       THEN Stops("connect", TRUE, <<>>) /\ UNCHANGED loop
       ELSE /\ IF config_ = "invalid"
               THEN \* validateDatabaseConfig() reads the stored configuration
                    /\ lastError_' = "Invalid database configuration"
                    /\ lastCall' = Call("connect", FALSE, "", <<>>, <<>>, 1)
                    /\ UNCHANGED <<config_, connectionAttemptCount_, connection_, isConnected_>>
               ELSE LET r == createConnection(connection_, isConnected_, c, backendUp, probeOk)
                    IN /\ config_' = c
                       /\ connectionAttemptCount_' = connectionAttemptCount_ + 1
                       /\ connection_' = r.conn
                       /\ lastError_' = r.err
                       /\ isConnected_' = r.ok
                       /\ lastCall' = Call("connect", r.ok, "", StatusEvents(r.connected, r.ok),
                                           <<>>, IF r.ok THEN 0 ELSE 1)
            /\ loop' = [loop EXCEPT !.active = FALSE]
            /\ UNCHANGED <<mutexStuck, mainBlocked, crashed>>
    /\ UNCHANGED <<relock, backendUp, autoReconnectEnabled_, reconnectTimerActive, queuedReconnects>>

\* void DatabaseManager::disconnect()
disconnect ==
    /\ MainRuns
    /\ IF mutexStuck
       THEN /\ Blocks("disconnect", TRUE, <<>>)
            /\ UNCHANGED <<reconnectTimerActive, loop>>
       ELSE /\ reconnectTimerActive' = FALSE
            /\ connection_' = "none"
            /\ isConnected_' = IF connection_ = "none" THEN isConnected_ ELSE FALSE
            /\ lastCall' = Call("disconnect", TRUE, "",
                                IF connection_ = "none" THEN <<>> ELSE StatusEvents(isConnected_, FALSE),
                                <<>>, 0)
            /\ loop' = [loop EXCEPT !.active = FALSE]
            /\ UNCHANGED <<mutexStuck, mainBlocked, crashed, config_, lastError_, connectionAttemptCount_>>
    /\ UNCHANGED <<relock, backendUp, autoReconnectEnabled_, queuedReconnects>>

\* the effect of reconnect() when the second lock is granted: disconnect(), then
\* createConnection(); attempts are the events the caller emitted before
Reconnects(op, probeOk, attempts) ==
    LET r == createConnection("none", IF connection_ = "none" THEN isConnected_ ELSE FALSE,
                              config_, backendUp, probeOk)
    IN /\ connection_' = r.conn
       /\ isConnected_' = r.connected
       /\ lastError_' = r.err
       /\ lastCall' = Call(op, r.ok, "",
                           IF connection_ = "none" THEN <<>> ELSE StatusEvents(isConnected_, FALSE),
                           attempts, IF r.ok THEN 0 ELSE 1)
       /\ UNCHANGED <<mutexStuck, mainBlocked, crashed, config_>>

\* bool DatabaseManager::reconnect(), called by the window's "reconnect" command
reconnect(probeOk) ==
    /\ MainRuns
    /\ IF CannotProceed
       THEN Stops("reconnect", TRUE, <<>>) /\ UNCHANGED <<reconnectTimerActive, loop>>
       ELSE /\ Reconnects("reconnect", probeOk, <<>>)
            /\ reconnectTimerActive' = FALSE
            /\ loop' = [loop EXCEPT !.active = FALSE]
    /\ UNCHANGED <<relock, backendUp, autoReconnectEnabled_, connectionAttemptCount_, queuedReconnects>>

\* pqxx::result DatabaseManager::executeQuery(const std::string& query), called by a
\* worker thread; sqlOk: the backend accepts the statement
executeQuery(sqlOk) ==
    /\ ~mutexStuck
    /\ ~crashed
    /\ IF relock # "proceed"
       THEN Stops("executeQuery", FALSE, <<>>) /\ UNCHANGED <<queuedReconnects, loop>>
       ELSE IF ~isConnected
       THEN /\ lastCall' = Call("executeQuery", FALSE, "Not connected to database", <<>>, <<>>, 0)
            /\ UNCHANGED <<mutexStuck, mainBlocked, crashed, connection_, isConnected_, config_,
                           lastError_, connectionAttemptCount_, queuedReconnects, loop>>
       ELSE IF backendUp /\ sqlOk
       THEN /\ lastCall' = Call("executeQuery", TRUE, "", <<>>, <<>>, 0)
            /\ UNCHANGED <<mutexStuck, mainBlocked, crashed, connection_, isConnected_, config_,
                           lastError_, connectionAttemptCount_, queuedReconnects, loop>>
       ELSE /\ lastError_' = "Query execution failed: " \o BackendError
            /\ isConnected_' = FALSE
            /\ queuedReconnects' = IF autoReconnectEnabled_ THEN queuedReconnects + 1 ELSE queuedReconnects
            /\ loop' = IF autoReconnectEnabled_ /\ ~loop.active
                       THEN [NoLoop EXCEPT !.active = TRUE, !.peak = connectionAttemptCount_]
                       ELSE loop
            /\ lastCall' = Call("executeQuery", FALSE, BackendError,
                                StatusEvents(isConnected_, FALSE), <<>>, 1)
            /\ UNCHANGED <<mutexStuck, mainBlocked, crashed, connection_, config_, connectionAttemptCount_>>
    /\ UNCHANGED <<relock, backendUp, autoReconnectEnabled_, reconnectTimerActive>>

\* bool DatabaseManager::pingConnection()
pingConnection ==
    /\ MainRuns
    /\ IF CannotProceed
       THEN Stops("pingConnection", TRUE, <<>>)
       ELSE /\ isConnected_' = IF isConnected /\ ~backendUp THEN FALSE ELSE isConnected_
            /\ lastCall' = Call("pingConnection", isConnected /\ backendUp, "",
                                IF isConnected /\ ~backendUp THEN <<FALSE>> ELSE <<>>, <<>>, 0)
            /\ UNCHANGED <<mutexStuck, mainBlocked, crashed, connection_, config_, lastError_,
                           connectionAttemptCount_>>
    /\ UNCHANGED <<relock, backendUp, autoReconnectEnabled_, reconnectTimerActive, queuedReconnects, loop>>

\* void DatabaseManager::enableAutoReconnect(bool enabled, int intervalMs)
enableAutoReconnect(enabled) ==
    /\ MainRuns
    /\ autoReconnectEnabled_' = enabled
    /\ reconnectTimerActive' = (enabled /\ reconnectTimerActive)
    /\ loop' = IF enabled THEN loop ELSE [loop EXCEPT !.active = FALSE]
    /\ lastCall' = Call("enableAutoReconnect", enabled, "", <<>>, <<>>, 0)
    /\ UNCHANGED <<relock, mutexStuck, mainBlocked, crashed, backendUp, connection_, isConnected_,
                   config_, lastError_, connectionAttemptCount_, queuedReconnects>>

\* n raised to at least m
Max(n, m) == IF n < m THEN m ELSE n

\* void DatabaseManager::attemptReconnect(), run by the main thread's event loop
attemptReconnect(probeOk) ==
    IF ~autoReconnectEnabled_
    THEN /\ lastCall' = Call("attemptReconnect", FALSE, "", <<>>, <<>>, 0)
         /\ UNCHANGED <<mutexStuck, mainBlocked, crashed, connection_, isConnected_, config_, lastError_,
                        connectionAttemptCount_, reconnectTimerActive, loop>>
    ELSE LET emitted == <<connectionAttemptCount_>>
             seen == IF loop.active
                     THEN [loop EXCEPT !.attempts = @ + 1, !.peak = Max(@, connectionAttemptCount_)]
                     ELSE loop
         IN IF CannotProceed
            THEN /\ Stops("attemptReconnect", TRUE, emitted)
                 /\ loop' = seen
                 /\ UNCHANGED reconnectTimerActive
            ELSE /\ Reconnects("attemptReconnect", probeOk, emitted)
                 /\ IF lastCall'.ok
                    THEN /\ connectionAttemptCount_' = 0
                         /\ reconnectTimerActive' = FALSE
                         /\ loop' = IF loop.active
                                    THEN [seen EXCEPT !.active = FALSE, !.done = TRUE,
                                                      !.statusTrue = @ + Len(SelectSeq(lastCall'.status, LAMBDA b : b)),
                                                      !.after = connectionAttemptCount_']
                                    ELSE loop
                    ELSE /\ reconnectTimerActive' = TRUE
                         /\ loop' = IF loop.active
                                    THEN [seen EXCEPT !.fails = @ + 1,
                                                      !.statusTrue = @ + Len(SelectSeq(lastCall'.status, LAMBDA b : b))]
                                    ELSE loop
                         /\ UNCHANGED connectionAttemptCount_

\* a queued attemptReconnect invocation is delivered
QueuedReconnectRuns(probeOk) ==
    /\ MainRuns
    /\ queuedReconnects > 0
    /\ queuedReconnects' = queuedReconnects - 1
    /\ attemptReconnect(probeOk)
    /\ UNCHANGED <<relock, backendUp, autoReconnectEnabled_>>

\* reconnectTimer_ (single shot) times out and calls attemptReconnect
ReconnectTimerTimeout(probeOk) ==
    /\ MainRuns
    /\ reconnectTimerActive
    /\ attemptReconnect(probeOk)
    /\ UNCHANGED <<relock, backendUp, autoReconnectEnabled_, queuedReconnects>>

\* the database server goes down or comes back
BackendChanges ==
    /\ backendUp' = ~backendUp
    /\ UNCHANGED <<relock, mutexStuck, mainBlocked, crashed, connection_, isConnected_, config_,
                   lastError_, autoReconnectEnabled_, connectionAttemptCount_, reconnectTimerActive,
                   queuedReconnects, loop, lastCall>>

---------------------------------------------------------------------------
(* QueryEngine. The timer, onQueryCompleted and the slots of queued signals    *)
(* run on the main thread; each QueryWorker::execute runs on a thread of its   *)
(* own. A result is a sequence of rows, a row a sequence of text fields.       *)

QueryOrder == <<"q1">>
ThresholdInputs == {0, 3}
ResultInputs == { <<>>, << <<"5">> >>, << <<"5">>, <<"x">> >> }
EngineWindowInputs == {0, DefaultDuplicateTimeWindow}

\* QueryConfig(id, name, sql, type, threshold)
QueryConfig(name, type, threshold, enabled) ==
    [name |-> name, alertType |-> type, threshold |-> threshold, enabled |-> enabled]

\* QueryResult
QueryResult(id, name, success, errorMessage, data) ==
    [queryId |-> id, queryName |-> name, success |-> success, errorMessage |-> errorMessage, data |-> data]

\* executed: the query of the queryExecuted event; alertId: what addAlert returned,
\* 0 if it was not called; event: the identifier alertGenerated carried, 0 for no event
NoDone ==
    [queryId |-> "", success |-> FALSE, empty |-> TRUE, executed |-> "", dup |-> FALSE, alertId |-> 0,
     event |-> 0]
NoRun == [ticks |-> 0, done |-> 0, data |-> <<>>, pure |-> TRUE]
NoEngineCall == [op |-> "none", signals |-> <<>>]
EngineCall(op, signals) == [op |-> op, signals |-> signals]

\* the signals of the engine that the properties observe
MonitoringStarted == "monitoringStarted"
MonitoringStopped == "monitoringStopped"
NotConnectedError == "queryError: Database not connected"
NoQueriesError == "queryError: No queries configured"
ConnectionLostError == "queryError: Database connection lost"

\* the engine before any query is registered
EngineFields ==
    /\ isMonitoring_ = FALSE
    /\ timerActive = FALSE
    /\ engineCall = NoEngineCall
    /\ totalExecutions_ = 0
    /\ totalFailures_ = 0
    /\ queryExecutionCounts_ = <<>>
    /\ maxConcurrentQueries_ = DefaultMaxConcurrentQueries
    /\ queryHistory_ = <<>>
    /\ workers = <<>>
    /\ completions = <<>>
    /\ queuedStatus = <<>>
    /\ lastDone = NoDone
    /\ run = NoRun

\* the engine as the store and connection specifications leave it: untouched
EngineIdle ==
    /\ EngineFields
    /\ queries_ = <<>>

\* std::stoi on a field: the fields that parse, and their value
Stoi(v) == CASE v = "5" -> 5 [] v = "7" -> 7 [] OTHER -> -1
Parses(v) == v \in {"5", "7"}

\* AlertType AlertSystem::classifyFromThreshold(result, threshold, defaultType)
classifyFromThreshold(result, threshold, defaultType) ==
    IF result = <<>> THEN "INFO"
    ELSE IF Len(result) >= 2 /\ Len(result[1]) > 0 /\ Parses(result[1][1])
            /\ Stoi(result[1][1]) >= threshold
    THEN (IF Stoi(result[1][1]) >= threshold * 2 THEN "CRITICAL" ELSE "WARNING")
    ELSE defaultType

\* std::string QueryEngine::formatAlertMessage(query, result)
formatAlertMessage(result) ==
    IF result = <<>> THEN "No results returned from query"
    ELSE IF Len(result[1]) > 0
    THEN (IF Len(result) = 1 THEN result[1][1]
          ELSE result[1][1] \o " (and " \o ToString(Len(result) - 1) \o " more rows)")
    ELSE "Query returned " \o ToString(Len(result)) \o " row(s)"

Min(n, m) == IF n < m THEN n ELSE m

\* the text calculateResultHash feeds to std::hash: the fields of one row, and of the rows
RECURSIVE HashFields(_, _)
HashFields(row, n) == IF n = 0 THEN "" ELSE HashFields(row, n - 1) \o row[n] \o "|"
RECURSIVE HashRows(_, _)
HashRows(result, n) ==
    IF n = 0 THEN ""
    ELSE HashRows(result, n - 1) \o HashFields(result[n], Min(3, Len(result[n]))) \o ";"

\* std::string QueryEngine::calculateResultHash(result); std::hash<std::string> is
\* taken to have no collisions on the inputs of the model, so the digest is the text
calculateResultHash(result) ==
    IF result = <<>> THEN "empty"
    ELSE ToString(Len(result)) \o "_" \o HashRows(result, Min(3, Len(result)))

\* bool QueryEngine::isRecentDuplicate(queryId, dataHash, timeWindowSeconds)
isRecentDuplicate(history, queryId, dataHash, t, timeWindowSeconds) ==
    \E i \in 1..Len(history) :
        /\ history[i].queryId = queryId
        /\ history[i].dataHash = dataHash
        /\ history[i].timestamp >= t - timeWindowSeconds

\* cleanupQueryHistory had it erased from the end while over the cap
cleanupQueryHistory_newestErased(history, t) ==
    LET kept == SelectSeq(history, LAMBDA e : ~(e.timestamp < t - HistoryKeepSeconds))
    IN IF Len(kept) > MAX_QUERY_HISTORY
       THEN SubSeq(kept, 1, MAX_QUERY_HISTORY)
       ELSE kept

\* void QueryEngine::cleanupQueryHistory()
cleanupQueryHistory(history, t) ==
    LET kept == SelectSeq(history, LAMBDA e : ~(e.timestamp < t - HistoryKeepSeconds))
    IN IF Len(kept) > MAX_QUERY_HISTORY
       THEN SubSeq(kept, Len(kept) - MAX_QUERY_HISTORY + 1, Len(kept))
       ELSE kept

\* the history part of QueryEngine::updateStatistics(result)
updateHistory(history, r, t) ==
    IF r.success /\ r.data # <<>>
    THEN Append(history, [queryId |-> r.queryId, dataHash |-> calculateResultHash(r.data), timestamp |-> t])
    ELSE history

\* the scheduler: the flag, the timer and the observation of its last call
Scheduler == [monitoring |-> isMonitoring_, timer |-> timerActive, call |-> engineCall]
SchedulerBecomes(s) ==
    /\ isMonitoring_' = s.monitoring
    /\ timerActive' = s.timer
    /\ engineCall' = s.call

\* stopMonitoring() had it cleared the flag and left the timer running
Stopped_timerRuns(s) ==
    IF ~s.monitoring
    THEN [s EXCEPT !.call = EngineCall("stopMonitoring", <<>>)]
    ELSE [monitoring |-> FALSE, timer |-> s.timer,
          call |-> EngineCall("stopMonitoring", <<MonitoringStopped>>)]

\* void QueryEngine::stopMonitoring(), on scheduler s
Stopped(s) ==
    IF ~s.monitoring
    THEN [s EXCEPT !.call = EngineCall("stopMonitoring", <<>>)]
    ELSE [monitoring |-> FALSE, timer |-> FALSE,
          call |-> EngineCall("stopMonitoring", <<MonitoringStopped>>)]

\* onDatabaseConnectionChanged had it stopped the scheduler without reporting the loss
onDatabaseConnectionChanged_silent(s, connected) ==
    IF ~connected /\ s.monitoring
    THEN [Stopped(s) EXCEPT !.call = EngineCall("onDatabaseConnectionChanged", Stopped(s).call.signals)]
    ELSE [s EXCEPT !.call = EngineCall("onDatabaseConnectionChanged", <<>>)]

\* onDatabaseConnectionChanged had it cleared the flag itself and left the timer running
onDatabaseConnectionChanged_flagOnly(s, connected) ==
    IF ~connected /\ s.monitoring
    THEN [monitoring |-> FALSE, timer |-> s.timer,
          call |-> EngineCall("onDatabaseConnectionChanged", <<MonitoringStopped, ConnectionLostError>>)]
    ELSE [s EXCEPT !.call = EngineCall("onDatabaseConnectionChanged", <<>>)]

\* void QueryEngine::onDatabaseConnectionChanged(bool connected), on scheduler s
onDatabaseConnectionChanged(s, connected) ==
    IF ~connected /\ s.monitoring
    THEN [Stopped(s) EXCEPT !.call = EngineCall("onDatabaseConnectionChanged",
                                                Stopped(s).call.signals \o <<ConnectionLostError>>)]
    ELSE [s EXCEPT !.call = EngineCall("onDatabaseConnectionChanged", <<>>)]

\* onDatabaseConnectionChanged for each of the signals, in order
RECURSIVE SchedulerAfter(_, _)
SchedulerAfter(s, signals) ==
    IF signals = <<>> THEN s
    ELSE SchedulerAfter(onDatabaseConnectionChanged(s, Head(signals)), Tail(signals))

\* a call of databaseManager_->isConnected() on the main thread: it takes the mutex
MainAsksConnected ==
    /\ mainBlocked' = mutexStuck
    /\ UNCHANGED <<relock, mutexStuck, crashed, backendUp, connection_, isConnected_, config_,
                   lastError_, autoReconnectEnabled_, connectionAttemptCount_, reconnectTimerActive,
                   queuedReconnects, loop, lastCall>>

\* void QueryEngine::startMonitoring()
startMonitoring ==
    /\ MainRuns
    /\ IF isMonitoring_
       THEN /\ engineCall' = EngineCall("startMonitoring", <<>>)
            /\ UNCHANGED <<connVars, isMonitoring_, timerActive>>
       ELSE /\ MainAsksConnected
            /\ CASE mutexStuck ->
                      \* isConnected() never returns
                      /\ engineCall' = EngineCall("startMonitoring", <<>>)
                      /\ UNCHANGED <<isMonitoring_, timerActive>>
                 [] ~mutexStuck /\ ~isConnected ->
                      /\ engineCall' = EngineCall("startMonitoring", <<NotConnectedError>>)
                      /\ UNCHANGED <<isMonitoring_, timerActive>>
                 [] ~mutexStuck /\ isConnected /\ DOMAIN queries_ = {} ->
                      /\ engineCall' = EngineCall("startMonitoring", <<NoQueriesError>>)
                      /\ UNCHANGED <<isMonitoring_, timerActive>>
                 [] OTHER ->
                      /\ isMonitoring_' = TRUE
                      /\ timerActive' = TRUE
                      /\ engineCall' = EngineCall("startMonitoring", <<MonitoringStarted>>)
    /\ UNCHANGED <<queries_, totalExecutions_, totalFailures_, queryExecutionCounts_,
                   maxConcurrentQueries_, queryHistory_, workers, completions,
                   queuedStatus, lastDone>>

\* void QueryEngine::removeQuery(const std::string& queryId)
removeQuery(queryId) ==
    /\ MainRuns
    /\ queries_' = [id \in DOMAIN queries_ \ {queryId} |-> queries_[id]]
    /\ UNCHANGED <<connVars, schedVars, totalExecutions_, totalFailures_, queryExecutionCounts_,
                   maxConcurrentQueries_, queryHistory_, workers,
                   completions, queuedStatus, lastDone>>

\* void QueryEngine::stopMonitoring()
stopMonitoring ==
    /\ MainRuns
    /\ SchedulerBecomes(Stopped(Scheduler))
    /\ UNCHANGED <<connVars, queries_, totalExecutions_, totalFailures_, queryExecutionCounts_,
                   maxConcurrentQueries_, queryHistory_, workers,
                   completions, queuedStatus, lastDone>>

\* the workers QueryEngine::executeAllQueries() starts: one for each enabled query
RECURSIVE Started(_, _)
Started(registry, n) ==
    IF n = 0 THEN <<>>
    ELSE LET id == QueryOrder[n]
         IN IF id \in DOMAIN registry /\ registry[id].enabled
            THEN Append(Started(registry, n - 1),
                        [queryId |-> id, queryName |-> registry[id].name, phase |-> "started"])
            ELSE Started(registry, n - 1)

\* void QueryEngine::setMaxConcurrentQueries(int maxQueries)
setMaxConcurrentQueries(maxQueries) ==
    /\ MainRuns
    /\ maxConcurrentQueries_' = maxQueries
    /\ UNCHANGED <<connVars, queries_, schedVars, totalExecutions_, totalFailures_,
                   queryExecutionCounts_, queryHistory_, workers, completions, queuedStatus, lastDone>>

\* void QueryEngine::onTimerTimeout(): executeAllQueries(), one interval after the
\* timer was started or last fired
onTimerTimeout ==
    /\ MainRuns
    /\ timerActive
    /\ now' = now + IntervalSeconds
    /\ MainAsksConnected
    /\ workers' = IF ~mutexStuck /\ isConnected
                  THEN workers \o Started(queries_, Len(QueryOrder))
                  ELSE workers
    /\ UNCHANGED <<queries_, schedVars, totalExecutions_, totalFailures_, queryExecutionCounts_,
                   maxConcurrentQueries_, queryHistory_,
                   completions, queuedStatus, lastDone>>

\* s without its i-th element
Without(s, i) == SubSeq(s, 1, i - 1) \o SubSeq(s, i + 1, Len(s))

\* void QueryWorker::execute(), up to its isConnected() check
WorkerChecks(i) ==
    /\ workers[i].phase = "started"
    /\ ~mutexStuck
    /\ ~crashed
    /\ IF isConnected
       THEN /\ workers' = [workers EXCEPT ![i].phase = "checked"]
            /\ UNCHANGED completions
       ELSE /\ workers' = Without(workers, i)
            /\ completions' = Append(completions,
                   QueryResult(workers[i].queryId, workers[i].queryName, FALSE, "Database not connected", <<>>))
    /\ UNCHANGED <<connVars, queries_, schedVars, totalExecutions_, totalFailures_, queryExecutionCounts_,
                   maxConcurrentQueries_, queryHistory_,
                   queuedStatus, lastDone>>

\* void QueryWorker::execute(), from its executeQuery call on; data: the rows the
\* backend returns if the statement succeeds
WorkerExecutes(i, sqlOk, data) ==
    /\ workers[i].phase = "checked"
    /\ executeQuery(sqlOk)
    /\ IF lastCall'.err = "blocked"
       THEN /\ workers' = [workers EXCEPT ![i].phase = "blocked"]
            /\ UNCHANGED completions
       ELSE /\ workers' = Without(workers, i)
            /\ completions' = Append(completions,
                   QueryResult(workers[i].queryId, workers[i].queryName, lastCall'.ok, lastCall'.err,
                               IF lastCall'.ok THEN data ELSE <<>>))
    /\ queuedStatus' = queuedStatus \o lastCall'.status
    /\ UNCHANGED <<queries_, schedVars, totalExecutions_, totalFailures_, queryExecutionCounts_,
                   maxConcurrentQueries_, queryHistory_, lastDone>>

\* the alert had generateErrorAlert used the query's configured severity
AlertFor_queryType(query, id, r) ==
    IF r.success
    THEN MkAlert(IF query.threshold > 0
                 THEN classifyFromThreshold(r.data, query.threshold, query.alertType)
                 ELSE query.alertType,
                 query.name, formatAlertMessage(r.data), id)
    ELSE MkAlert(query.alertType, query.name, "Query execution failed: " \o r.errorMessage, id)

\* the alert QueryEngine::processQueryResult(result) hands to AlertSystem::addAlert:
\* generateDataAlert for rows, generateErrorAlert for a failure
AlertFor(query, id, r) ==
    IF r.success
    THEN MkAlert(IF query.threshold > 0
                 THEN classifyFromThreshold(r.data, query.threshold, query.alertType)
                 ELSE query.alertType,
                 query.name, formatAlertMessage(r.data), id)
    ELSE MkAlert("WARNING", query.name, "Query execution failed: " \o r.errorMessage, id)

\* the emission had it not been conditional on the identifier
AlertGenerated_always(alertId) == alertId

\* if (alertId > 0) emit alertGenerated(Alert(alertId, ...)): the identifier the
\* event carries, 0 for no event
AlertGenerated(alertId) == IF alertId > 0 THEN alertId ELSE 0

\* queryExecutionCounts_[queryId]++ on a std::map: a missing key starts at 0
Counted(counts, queryId) ==
    [id \in DOMAIN counts \cup {queryId} |->
        IF id = queryId
        THEN (IF id \in DOMAIN counts THEN counts[id] + 1 ELSE 1)
        ELSE counts[id]]

\* getQuery had it answered for a removed query with the entry it had
getQuery_stale(registry, id) ==
    IF id \in DOMAIN registry THEN <<registry[id]>> ELSE <<QueryConfig("n1", "INFO", 0, TRUE)>>

\* QueryConfig* QueryEngine::getQuery(const std::string& id): <<>> for nullptr
getQuery(registry, id) == IF id \in DOMAIN registry THEN <<registry[id]>> ELSE <<>>

\* void QueryEngine::onQueryCompleted(const QueryResult& result)
onQueryCompleted ==
    /\ MainRuns
    /\ completions # <<>>
    /\ LET r == Head(completions)
           alerts == (r.success /\ r.data # <<>>) \/ ~r.success
           query == getQuery(queries_, r.queryId)
           known == query # <<>>
       IN /\ completions' = Tail(completions)
          /\ totalExecutions_' = totalExecutions_ + 1
          /\ totalFailures_' = IF r.success THEN totalFailures_ ELSE totalFailures_ + 1
          /\ queryExecutionCounts_' = Counted(queryExecutionCounts_, r.queryId)
          /\ queryHistory_' = cleanupQueryHistory(updateHistory(queryHistory_, r, now), now)
          /\ IF alerts /\ known
             THEN addAlert(AlertFor(query[1], r.queryId, r))
             ELSE UNCHANGED <<storeVars, lastOp>>
          /\ lastDone' = [queryId |-> r.queryId, success |-> r.success, empty |-> r.data = <<>>,
                          executed |-> r.queryId,
                          dup |-> isRecentDuplicate(queryHistory_, r.queryId, calculateResultHash(r.data),
                                                    now, HistoryWindowSeconds),
                          alertId |-> IF alerts /\ known THEN lastOp'.ret ELSE 0,
                          event |-> IF alerts /\ known THEN AlertGenerated(lastOp'.ret) ELSE 0]
    /\ UNCHANGED <<connVars, queries_, schedVars, maxConcurrentQueries_, workers, queuedStatus>>

\* a queued connectionStatusChanged signal reaches QueryEngine::onDatabaseConnectionChanged
StatusDelivered ==
    /\ MainRuns
    /\ queuedStatus # <<>>
    /\ queuedStatus' = Tail(queuedStatus)
    /\ SchedulerBecomes(onDatabaseConnectionChanged(Scheduler, Head(queuedStatus)))
    /\ UNCHANGED <<connVars, queries_, totalExecutions_, totalFailures_, queryExecutionCounts_,
                   maxConcurrentQueries_, queryHistory_, workers,
                   completions, lastDone>>

\* a DatabaseManager call on the main thread: the connectionStatusChanged signals it
\* emits reach onDatabaseConnectionChanged before it returns
OnMainThread ==
    /\ SchedulerBecomes(SchedulerAfter(Scheduler, lastCall'.status))
    /\ UNCHANGED <<queries_, totalExecutions_, totalFailures_, queryExecutionCounts_,
                   maxConcurrentQueries_, queryHistory_, workers, completions,
                   queuedStatus, lastDone>>

---------------------------------------------------------------------------
(* Spec: the alert store under duplicate detection *)

\* the store as constructed; the connection manager and the engine untouched
IdleInit ==
    /\ StoreInit
    /\ ConnIdle
    /\ EngineIdle

DedupAdd ==
    \E a \in AlertInputs :
        nextAlertId_ <= MaxAppends /\ addAlert(a) /\ UNCHANGED <<now, accepted, sinceReset, connVars, engVars, traceVars>>
DedupProbe ==
    \E a \in AlertInputs, w \in WindowInputs :
        isDuplicate(a, w) /\ UNCHANGED <<now, accepted, sinceReset, connVars, engVars, traceVars>>
DedupClear == enforceMaxAlerts(0) /\ UNCHANGED <<now, accepted, sinceReset, connVars, engVars, traceVars>>
DedupSetEnabled ==
    \E b \in BOOLEAN : setDuplicateDetectionEnabled(b) /\ UNCHANGED <<now, accepted, sinceReset, connVars, engVars, traceVars>>
DedupSetWindow ==
    \E s \in WindowInputs : setDuplicateTimeWindow(s) /\ UNCHANGED <<now, accepted, sinceReset, connVars, engVars, traceVars>>
DedupSetMax ==
    \E n \in {0, 1} : setMaxAlerts(n) /\ UNCHANGED <<now, accepted, sinceReset, connVars, engVars, traceVars>>

StoreNext ==
    \/ DedupAdd
    \/ DedupProbe
    \/ DedupClear
    \/ DedupSetEnabled
    \/ DedupSetWindow
    \/ DedupSetMax
    \/ ClockTick

Spec == IdleInit /\ [][StoreNext]_vars

---------------------------------------------------------------------------
(* SpecCap: the alert store under its capacity limit *)

CapAdd ==
    \E a \in CapAlertInputs :
        /\ nextAlertId_ <= MaxCapAppends
        /\ addAlert(a)
        /\ IF lastOp'.ret = NotAdded
           THEN UNCHANGED <<accepted, sinceReset>>
           ELSE /\ accepted' = Append(accepted, NewAlert(a, lastOp'.ret, now))
                /\ sinceReset' = sinceReset + 1
        /\ UNCHANGED <<now, connVars, engVars, traceVars>>
CapQuery == \E n \in MaxCountInputs : getRecentAlerts(n) /\ UNCHANGED <<now, accepted, sinceReset, connVars, engVars, traceVars>>
CapCleanup ==
    \E s \in MaxAgeInputs : cleanupOldAlerts(s) /\ sinceReset' = 0 /\ UNCHANGED <<now, accepted, connVars, engVars, traceVars>>
CapEnforce ==
    \E n \in MaxAlertsInputs : enforceMaxAlerts(n) /\ sinceReset' = 0 /\ UNCHANGED <<now, accepted, connVars, engVars, traceVars>>
CapSetMax ==
    \E n \in MaxAlertsInputs : setMaxAlerts(n) /\ sinceReset' = 0 /\ UNCHANGED <<now, accepted, connVars, engVars, traceVars>>
CapSetEnabled ==
    \E b \in BOOLEAN : setDuplicateDetectionEnabled(b) /\ UNCHANGED <<now, accepted, sinceReset, connVars, engVars, traceVars>>

CapNext ==
    \/ CapAdd
    \/ CapQuery
    \/ CapCleanup
    \/ CapEnforce
    \/ CapSetMax
    \/ CapSetEnabled
    \/ ClockTick

SpecCap == IdleInit /\ [][CapNext]_vars

---------------------------------------------------------------------------
(* SpecConn: the connection manager and its auto-reconnect loop *)

\* the observer of SpecConn sees the connectionStatusChanged events of the call
ConnObserved == statusSeen' = SeenAfter(statusSeen, lastCall'.status) /\ UNCHANGED <<lk, classified, mx>>

ConnConnect ==
    \E c \in ConfigInputs, probeOk \in BOOLEAN :
        /\ connectionAttemptCount_ < MaxAttempts
        /\ connect(c, probeOk)
        /\ ConnObserved /\ UNCHANGED <<now, storeVars, obsVars, engVars>>
ConnDisconnect == disconnect /\ ConnObserved /\ UNCHANGED <<now, storeVars, obsVars, engVars>>
ConnReconnect == \E probeOk \in BOOLEAN : reconnect(probeOk) /\ ConnObserved /\ UNCHANGED <<now, storeVars, obsVars, engVars>>
ConnExecute ==
    \E sqlOk \in BOOLEAN :
        /\ queuedReconnects < MaxQueued
        /\ executeQuery(sqlOk)
        /\ ConnObserved /\ UNCHANGED <<now, storeVars, obsVars, engVars>>
ConnPing == pingConnection /\ ConnObserved /\ UNCHANGED <<now, storeVars, obsVars, engVars>>
ConnEnableAuto ==
    \E b \in BOOLEAN : enableAutoReconnect(b) /\ ConnObserved /\ UNCHANGED <<now, storeVars, obsVars, engVars>>
ConnQueuedReconnect ==
    \E probeOk \in BOOLEAN :
        /\ loop.fails < MaxRetries
        /\ QueuedReconnectRuns(probeOk)
        /\ ConnObserved /\ UNCHANGED <<now, storeVars, obsVars, engVars>>
ConnTimerReconnect ==
    \E probeOk \in BOOLEAN :
        /\ loop.fails < MaxRetries
        /\ ReconnectTimerTimeout(probeOk)
        /\ ConnObserved /\ UNCHANGED <<now, storeVars, obsVars, engVars>>
ConnBackend == BackendChanges /\ UNCHANGED <<now, storeVars, obsVars, engVars, traceVars>>

ConnNext ==
    \/ ConnConnect
    \/ ConnDisconnect
    \/ ConnReconnect
    \/ ConnExecute
    \/ ConnPing
    \/ ConnEnableAuto
    \/ ConnQueuedReconnect
    \/ ConnTimerReconnect
    \/ ConnBackend

ConnOnlyInit ==
    /\ StoreInit
    /\ ConnInit
    /\ EngineIdle

SpecConn == ConnOnlyInit /\ [][ConnNext]_vars

---------------------------------------------------------------------------
(* SpecEngine: the program as main() wires it: the store configured from the   *)
(* configuration file, auto-reconnect enabled, one query registered            *)

EngineInit ==
    /\ now = 0
    /\ alerts_ = <<>>
    /\ nextAlertId_ = 1
    /\ duplicateDetectionEnabled_ \in BOOLEAN
    /\ duplicateTimeWindow_ \in (IF duplicateDetectionEnabled_ THEN EngineWindowInputs
                                 ELSE {DefaultDuplicateTimeWindow})
    /\ maxAlerts_ = DefaultMaxAlerts
    /\ lastOp = NoOp
    /\ accepted = <<>>
    /\ sinceReset = 0
    /\ ConnFields(TRUE)
    /\ statusSeen = NoStatus
    /\ classified = NoClassified
    /\ lk = NoLocks
    /\ mx = NoEngineLocks
    /\ relock \in RelockOutcomes
    /\ backendUp = TRUE
    /\ config_ = "valid"
    /\ EngineFields
    /\ queries_ \in { [id \in {"q1"} |-> QueryConfig("n1", "INFO", th, TRUE)] : th \in ThresholdInputs }

\* main() connects once, before the event loop starts
EngConnect ==
    \E probeOk \in BOOLEAN :
        /\ lastCall = NoCall
        /\ connect("valid", probeOk)
        /\ OnMainThread
        /\ UNCHANGED <<now, storeVars, obsVars, run, traceVars>>
EngQueuedReconnect ==
    \E probeOk \in BOOLEAN :
        /\ loop.fails < MaxRetries
        /\ QueuedReconnectRuns(probeOk)
        /\ OnMainThread
        /\ UNCHANGED <<now, storeVars, obsVars, run, traceVars>>
EngTimerReconnect ==
    \E probeOk \in BOOLEAN :
        /\ loop.fails < MaxRetries
        /\ ReconnectTimerTimeout(probeOk)
        /\ OnMainThread
        /\ UNCHANGED <<now, storeVars, obsVars, run, traceVars>>
EngStart == startMonitoring /\ UNCHANGED <<now, storeVars, obsVars, run, traceVars>>
EngStop ==
    /\ isMonitoring_
    /\ stopMonitoring
    /\ run' = [run EXCEPT !.pure = FALSE]
    /\ UNCHANGED <<now, storeVars, obsVars, traceVars>>
EngTick ==
    /\ now < MaxTicks
    /\ Len(workers) < MaxWorkers
    /\ onTimerTimeout
    /\ run' = IF Len(workers') = Len(workers) + 1
              THEN [run EXCEPT !.ticks = @ + 1]
              ELSE [run EXCEPT !.pure = FALSE]
    /\ UNCHANGED <<storeVars, obsVars, traceVars>>
EngWorkerChecks ==
    \E i \in 1..Len(workers) : WorkerChecks(i) /\ UNCHANGED <<now, storeVars, obsVars, run, traceVars>>
EngWorkerExecutes ==
    \E i \in 1..Len(workers), sqlOk \in BOOLEAN, data \in ResultInputs :
        /\ WorkerExecutes(i, sqlOk, data)
        /\ UNCHANGED <<now, storeVars, obsVars, run, traceVars>>
EngCompleted ==
    /\ onQueryCompleted
    /\ LET r == Head(completions)
       IN run' = IF r.success /\ r.data # <<>> /\ (run.done = 0 \/ r.data = run.data)
                 THEN [run EXCEPT !.done = @ + 1, !.data = r.data]
                 ELSE [run EXCEPT !.pure = FALSE]
    /\ UNCHANGED <<now, accepted, sinceReset, traceVars>>
EngStatusDelivered == StatusDelivered /\ UNCHANGED <<now, storeVars, obsVars, run, traceVars>>

EngineNext ==
    \/ EngConnect
    \/ EngQueuedReconnect
    \/ EngTimerReconnect
    \/ EngStart
    \/ EngStop
    \/ EngTick
    \/ EngWorkerChecks
    \/ EngWorkerExecutes
    \/ EngCompleted
    \/ EngStatusDelivered

SpecEngine == EngineInit /\ [][EngineNext]_vars

---------------------------------------------------------------------------
(* SpecSched: the scheduler under start, stop, ticks and connection changes,   *)
(* over a registry that is empty, holds a disabled query or an enabled one     *)

RegistryInputs ==
    { <<>> } \cup { [id \in {"q1"} |-> QueryConfig("n1", "INFO", 0, enabled)] : enabled \in BOOLEAN }
SchedResultInputs == { << <<"5">> >> }

\* the capacities main() may configure the store with
SchedMaxAlertsInputs == {0, 1, DefaultMaxAlerts}

\* the concurrency limits main() may configure the engine with
MaxConcurrentInputs == {1, DefaultMaxConcurrentQueries}

SchedInit ==
    /\ now = 0
    /\ alerts_ = <<>>
    /\ nextAlertId_ = 1
    /\ duplicateDetectionEnabled_ = TRUE
    /\ duplicateTimeWindow_ = DefaultDuplicateTimeWindow
    /\ maxAlerts_ \in SchedMaxAlertsInputs
    /\ lastOp = NoOp
    /\ accepted = <<>>
    /\ sinceReset = 0
    /\ ConnFields(FALSE)
    /\ statusSeen = NoStatus
    /\ classified = NoClassified
    /\ lk = NoLocks
    /\ mx = NoEngineLocks
    /\ relock \in RelockOutcomes
    /\ backendUp = TRUE
    /\ config_ = "valid"
    /\ EngineFields
    /\ queries_ \in RegistryInputs

SchedConnect ==
    \E probeOk \in BOOLEAN :
        /\ connectionAttemptCount_ < MaxAttempts
        /\ connect("valid", probeOk)
        /\ OnMainThread
        /\ UNCHANGED <<now, storeVars, obsVars, run, traceVars>>
SchedDisconnect ==
    /\ disconnect
    /\ OnMainThread
    /\ UNCHANGED <<now, storeVars, obsVars, run, traceVars>>
SchedStart == startMonitoring /\ UNCHANGED <<now, storeVars, obsVars, run, traceVars>>
SchedStop == stopMonitoring /\ UNCHANGED <<now, storeVars, obsVars, run, traceVars>>
SchedRemove ==
    \E id \in DOMAIN queries_ :
        removeQuery(id) /\ UNCHANGED <<now, storeVars, obsVars, run, traceVars>>
SchedSetMaxConcurrent ==
    \E maxQueries \in MaxConcurrentInputs :
        setMaxConcurrentQueries(maxQueries) /\ UNCHANGED <<now, storeVars, obsVars, run, traceVars>>
SchedTick ==
    /\ now < MaxTicks
    /\ Len(workers) < MaxWorkers
    /\ onTimerTimeout
    /\ UNCHANGED <<storeVars, obsVars, run, traceVars>>
SchedWorkerChecks ==
    \E i \in 1..Len(workers) : WorkerChecks(i) /\ UNCHANGED <<now, storeVars, obsVars, run, traceVars>>
SchedWorkerExecutes ==
    \E i \in 1..Len(workers), sqlOk \in BOOLEAN, data \in SchedResultInputs :
        /\ WorkerExecutes(i, sqlOk, data)
        /\ UNCHANGED <<now, storeVars, obsVars, run, traceVars>>
SchedCompleted == onQueryCompleted /\ UNCHANGED <<now, accepted, sinceReset, run, traceVars>>
SchedStatusDelivered == StatusDelivered /\ UNCHANGED <<now, storeVars, obsVars, run, traceVars>>

SchedNext ==
    \/ SchedConnect
    \/ SchedDisconnect
    \/ SchedStart
    \/ SchedStop
    \/ SchedRemove
    \/ SchedSetMaxConcurrent
    \/ SchedTick
    \/ SchedWorkerChecks
    \/ SchedWorkerExecutes
    \/ SchedCompleted
    \/ SchedStatusDelivered

SpecSched == SchedInit /\ [][SchedNext]_vars

---------------------------------------------------------------------------
(* Classification. A text that is searched or lower-cased is a sequence of     *)
(* characters; a result is a sequence of rows, a row a sequence of cells.      *)

UpperCase == <<"A", "B", "C", "D", "E", "F", "G", "H", "I", "J", "K", "L", "M",
               "N", "O", "P", "Q", "R", "S", "T", "U", "V", "W", "X", "Y", "Z">>
LowerCase == <<"a", "b", "c", "d", "e", "f", "g", "h", "i", "j", "k", "l", "m",
               "n", "o", "p", "q", "r", "s", "t", "u", "v", "w", "x", "y", "z">>

\* ::tolower on one character
tolower(c) ==
    IF \E i \in 1..Len(UpperCase) : UpperCase[i] = c
    THEN LowerCase[CHOOSE i \in 1..Len(UpperCase) : UpperCase[i] = c]
    ELSE c
\* std::transform(s.begin(), s.end(), s.begin(), ::tolower)
Lowered(s) == [i \in 1..Len(s) |-> tolower(s[i])]
\* s.find(k) != std::string::npos
Finds(s, k) == \E i \in 1..(Len(s) - Len(k) + 1) : SubSeq(s, i, i + Len(k) - 1) = k

CriticalNames == { <<"c","r","i","t","i","c","a","l">>, <<"e","r","r","o","r">>, <<"f","a","t","a","l">> }
WarningNames == { <<"w","a","r","n","i","n","g">>, <<"w","a","r","n">>, <<"a","l","e","r","t">> }
InfoNames == { <<"i","n","f","o">>, <<"i","n","f","o","r","m","a","t","i","o","n">>,
               <<"n","o","t","i","c","e">> }
CriticalKeywords == { <<"e","r","r","o","r">>, <<"f","a","i","l">>,
                      <<"c","r","i","t","i","c","a","l">>, <<"b","r","e","a","c","h">> }
WarningKeywords == { <<"w","a","r","n","i","n","g">>, <<"a","l","e","r","t">>,
                     <<"u","n","u","s","u","a","l">> }

\* some cell of the result, lower-cased, contains one of the keywords
HasKeyword(result, keywords) ==
    \E r \in 1..Len(result) : \E i \in 1..Len(result[r]) : \E k \in keywords :
        Finds(Lowered(result[r][i]), k)

\* AlertType AlertSystem::classifyAlert(alertTypeStr, result)
classifyAlert(alertTypeStr, result) ==
    LET lowerType == Lowered(alertTypeStr)
    IN IF lowerType \in CriticalNames THEN "CRITICAL"
       ELSE IF lowerType \in WarningNames THEN "WARNING"
       ELSE IF lowerType \in InfoNames THEN "INFO"
       ELSE IF result = <<>> THEN "INFO"
       ELSE IF HasKeyword(result, CriticalKeywords) THEN "CRITICAL"
       ELSE IF HasKeyword(result, WarningKeywords) THEN "WARNING"
       ELSE "INFO"

\* AlertType QueryEngine::parseAlertType(typeStr): the severity a query gets from
\* the type written in the configuration file
parseAlertType(typeStr) ==
    LET lowerType == Lowered(typeStr)
    IN IF lowerType \in CriticalNames THEN "CRITICAL"
       ELSE IF lowerType \in WarningNames THEN "WARNING"
       ELSE "INFO"

\* the severity QueryEngine::generateDataAlert gives the alert of a query that was
\* configured with type typeStr and no threshold: query->alertType, whatever the result
configuredType(typeStr, result) == parseAlertType(typeStr)

TypeStrInputs ==
    { <<>>, <<"c","u","s","t","o","m">>, <<"C","R","I","T","I","C","A","L">>, <<"W","a","r","n">>,
      <<"n","o","t","i","c","e">>, <<"i","n","f","o">>, <<"e","r","r","o","r">> }
CellOk == <<"o","k">>
CellError == <<"E","R","R","O","R",":"," ","x">>
CellFailed == <<"f","a","i","l","e","d">>
CellWarning == <<"W","a","r","n","i","n","g">>
CellUnusual == <<"u","n","u","s","u","a","l">>
CellResultInputs ==
    { <<>>, << <<CellOk>> >>, << <<CellError>> >>, << <<CellOk, CellWarning>> >>,
      << <<CellWarning>>, <<CellFailed>> >>, << <<CellOk>>, <<CellUnusual>> >>,
      << <<CellOk>>, <<CellOk>> >> }
ThresholdResultInputs ==
    { <<>>, << <<"5">> >>, << <<"7">> >>, << <<"x">> >>, << <<"5">>, <<"x">> >>,
      << <<"7">>, <<"x">> >>, << <<"x">>, <<"5">> >>, << <<>>, <<>> >> }
ClassifyThresholdInputs == {3, 5, 8}

Classified(fn, typeStr, cells, rows, threshold, defaultType, out) ==
    [fn |-> fn, typeStr |-> typeStr, cells |-> cells, rows |-> rows, threshold |-> threshold,
     defaultType |-> defaultType, out |-> out]

---------------------------------------------------------------------------
(* SpecClassify: the classification functions applied to their inputs *)

ClassifyInit == IdleInit

ClassifyThreshold ==
    \E rows \in ThresholdResultInputs, t \in ClassifyThresholdInputs, ty \in AlertTypes :
        /\ classified' = Classified("classifyFromThreshold", <<>>, <<>>, rows, t, ty,
                                    classifyFromThreshold(rows, t, ty))
        /\ UNCHANGED <<now, storeVars, obsVars, connVars, engVars, statusSeen, lk, mx>>
ClassifyHeuristic ==
    \E typeStr \in TypeStrInputs, cells \in CellResultInputs :
        /\ classified' = Classified("classifyAlert", typeStr, cells, <<>>, 0, "INFO",
                                    classifyAlert(typeStr, cells))
        /\ UNCHANGED <<now, storeVars, obsVars, connVars, engVars, statusSeen, lk, mx>>
ClassifyConfigured ==
    \E typeStr \in TypeStrInputs, cells \in CellResultInputs :
        /\ classified' = Classified("generateDataAlert", typeStr, cells, <<>>, 0, "INFO",
                                    configuredType(typeStr, cells))
        /\ UNCHANGED <<now, storeVars, obsVars, connVars, engVars, statusSeen, lk, mx>>

ClassifyNext ==
    \/ ClassifyThreshold
    \/ ClassifyHeuristic
    \/ ClassifyConfigured

SpecClassify == ClassifyInit /\ [][ClassifyNext]_vars

---------------------------------------------------------------------------
(* SpecQuery: the alert store under its read operations *)

QueryInit == IdleInit

QueryAdd ==
    \E a \in AlertInputs :
        /\ nextAlertId_ <= MaxQueryAppends
        /\ addAlert(a)
        /\ UNCHANGED <<now, accepted, sinceReset, connVars, engVars, traceVars>>
QuerySimilar ==
    \E a \in AlertInputs, w \in WindowInputs :
        isSimilar(a, w) /\ UNCHANGED <<now, accepted, sinceReset, connVars, engVars, traceVars>>
QueryRecent ==
    \E n \in MaxCountInputs :
        getRecentAlerts(n) /\ UNCHANGED <<now, accepted, sinceReset, connVars, engVars, traceVars>>
QueryByType ==
    \E ty \in AlertTypes, n \in MaxCountInputs :
        getAlertsByType(ty, n) /\ UNCHANGED <<now, accepted, sinceReset, connVars, engVars, traceVars>>
QuerySince ==
    \E t \in 0..MaxTime :
        getAlertsSince(t) /\ UNCHANGED <<now, accepted, sinceReset, connVars, engVars, traceVars>>

QueryNext ==
    \/ ClockTick
    \/ QueryAdd
    \/ QuerySimilar
    \/ QueryRecent
    \/ QueryByType
    \/ QuerySince

SpecQuery == QueryInit /\ [][QueryNext]_vars

---------------------------------------------------------------------------
(* SpecLock: three threads calling into the connection manager *)

LockInit ==
    /\ StoreInit
    /\ ConnFields(FALSE)
    /\ statusSeen = NoStatus
    /\ classified = NoClassified
    /\ lk = NoLocks
    /\ mx = NoEngineLocks
    /\ relock \in RelockOutcomes
    /\ backendUp = TRUE
    /\ config_ = "valid"
    /\ EngineIdle

LockCall ==
    \E t \in Threads, op \in {"connect", "disconnect", "reconnect", "pingConnection", "attemptReconnect",
                              "getConnectionAttemptCount", "getLastError", "isConnected", "executeQuery"} :
        /\ op \in CallsOf(t)
        /\ ThreadCalls(t, op)
        /\ UNCHANGED <<now, storeVars, obsVars, connVars, engVars, statusSeen, classified, mx>>
LockStep ==
    \E t \in Threads :
        /\ ThreadSteps(t)
        /\ UNCHANGED <<now, storeVars, obsVars, connVars, engVars, statusSeen, classified, mx>>

LockNext ==
    \/ LockCall
    \/ LockStep

SpecLock == LockInit /\ [][LockNext]_vars

---------------------------------------------------------------------------
(* Properties of the alert store *)

\* the step is a call addAlert(a)
AddStep(a) == lastOp'.op = "addAlert" /\ lastOp'.alert = a /\ lastOp'.at = now /\ now' = now

\* a stored alert e was recorded within w seconds before t
InWindow(e, t, w) == e.timestamp >= t - w

\* some alert of store recorded within the window has the four fields of a
InWindowMatch(store, a, t, w) ==
    \E i \in 1..Len(store) :
        /\ InWindow(store[i], t, w)
        /\ store[i].type = a.type /\ store[i].querySource = a.querySource
        /\ store[i].title = a.title /\ store[i].message = a.message

\* the stored copies of a with identifier id or later
CopiesSince(store, a, id) ==
    {i \in 1..Len(store) :
        /\ store[i].id >= id
        /\ store[i].type = a.type /\ store[i].querySource = a.querySource
        /\ store[i].title = a.title /\ store[i].message = a.message}

\* addAlert(a) was accepted and is followed, with detection on and within the window, by addAlert(a)
TwiceWithinWindow(a) ==
    /\ lastOp.op = "addAlert" /\ lastOp.alert = a /\ lastOp.ret # NotAdded
    /\ AddStep(a)
    /\ duplicateDetectionEnabled_
    /\ now - lastOp.at <= duplicateTimeWindow_

\* C1 as stated: with duplicate detection enabled, two identical appends within the
\* window leave exactly one stored alert and the second returns -1.
C1_Idempotent ==
    [][\A a \in AlertInputs :
          TwiceWithinWindow(a) =>
              /\ lastOp'.ret = NotAdded
              /\ Cardinality(CopiesSince(alerts_', a, lastOp.ret)) = 1]_vars

\* C1 amended: the same for a store whose capacity is not 0.
C1_IdempotentWithCapacity ==
    [][\A a \in AlertInputs :
          (TwiceWithinWindow(a) /\ maxAlerts_ # 0) =>
              /\ lastOp'.ret = NotAdded
              /\ alerts_' = alerts_
              /\ Cardinality(CopiesSince(alerts_', a, lastOp.ret)) = 1]_vars

\* a second append was suppressed by the copy stored exactly one window earlier
C1_Witness ==
    /\ lastOp.op = "addAlert" /\ lastOp.ret = NotAdded /\ lastOp.at = now
    /\ duplicateDetectionEnabled_
    /\ Len(alerts_) = 1
    /\ alerts_[1].timestamp = now - duplicateTimeWindow_
    /\ alerts_[1].timestamp < now
    /\ Cardinality(CopiesSince(alerts_, lastOp.alert, 1)) = 1

SuppressedIffMatch(a) ==
    /\ lastOp'.ret = NotAdded <=> InWindowMatch(alerts_, a, now, duplicateTimeWindow_)
    /\ lastOp'.ret # NotAdded => lastOp'.ret = nextAlertId_ /\ nextAlertId_' = nextAlertId_ + 1

\* what C3 says of one isDuplicate(a, w)
ProbeIffMatch ==
    (lastOp'.op = "isDuplicate" /\ lastOp'.at = now /\ now' = now) =>
        (lastOp'.ret = 1 <=> InWindowMatch(alerts_, lastOp'.alert, now, lastOp'.arg))

\* C3 as stated: an append is suppressed if and only if some stored alert recorded
\* within the window has the same severity, source, title and message.
C3_SuppressedIffDuplicate ==
    [][/\ \A a \in AlertInputs : AddStep(a) => SuppressedIffMatch(a)
       /\ ProbeIffMatch]_vars

\* C3 amended: the same while duplicate detection is enabled.
C3_SuppressedIffDuplicateWhenEnabled ==
    [][/\ \A a \in AlertInputs : (AddStep(a) /\ duplicateDetectionEnabled_) => SuppressedIffMatch(a)
       /\ ProbeIffMatch]_vars

\* an alert that differs from the one in-window stored alert in its message alone was stored
C3_Witness ==
    /\ duplicateDetectionEnabled_
    /\ lastOp.op = "addAlert" /\ lastOp.ret # NotAdded /\ lastOp.at = now
    /\ Len(alerts_) = 2
    /\ alerts_[2].id = lastOp.ret
    /\ InWindow(alerts_[1], now, duplicateTimeWindow_)
    /\ alerts_[1].type = alerts_[2].type /\ alerts_[1].querySource = alerts_[2].querySource
    /\ alerts_[1].title = alerts_[2].title /\ alerts_[1].message # alerts_[2].message

\* the last n elements of seq
LastN(seq, n) == SubSeq(seq, Len(seq) - n + 1, Len(seq))

\* more alerts were accepted than the capacity since the capacity was set, and
\* the last call was getRecentAlerts
QueriedAfterOverflow ==
    /\ lastOp.op = "getRecentAlerts"
    /\ maxAlerts_ >= 0
    /\ sinceReset > maxAlerts_

\* C4 as stated: after N > C accepted appends to a store of capacity C, query()
\* returns exactly C alerts, the C most recently appended.
C4_QueryReturnsCapacity ==
    QueriedAfterOverflow =>
        /\ Len(lastOp.out) = maxAlerts_
        /\ lastOp.out = LastN(accepted, maxAlerts_)

\* C4 amended: getRecentAlerts(maxCount) returns the min(C, maxCount) most recently
\* appended alerts, so exactly C of them when maxCount >= C.
C4_QueryReturnsNewest ==
    QueriedAfterOverflow =>
        LET n == IF lastOp.arg < maxAlerts_ THEN lastOp.arg ELSE maxAlerts_
        IN /\ Len(lastOp.out) = n
           /\ lastOp.out = LastN(accepted, n)
           /\ Len(alerts_) = maxAlerts_

\* three alerts were accepted by a store of capacity 2 and the query returned the last two
C4_Witness ==
    /\ QueriedAfterOverflow
    /\ maxAlerts_ = 2 /\ sinceReset = 3 /\ lastOp.arg >= 2
    /\ Len(lastOp.out) = 2
    /\ lastOp.out[1].id = 2 /\ lastOp.out[2].id = 3

\* C5: the number of stored alerts is at most the configured maximum, in every state.
C5_SizeWithinMaximum ==
    maxAlerts_ >= 0 => Len(alerts_) <= maxAlerts_

\* C6: identifiers are strictly increasing in append order and never reused: each
\* accepted append returned an identifier greater than all returned before, and
\* the next identifier is greater than all of them.
C6_IdsStrictlyIncreasing ==
    /\ \A i, j \in 1..Len(accepted) : i < j => accepted[i].id < accepted[j].id
    /\ \A i \in 1..Len(accepted) : accepted[i].id < nextAlertId_
    /\ \A i \in 1..Len(alerts_) : \E j \in 1..Len(accepted) : alerts_[i] = accepted[j]
    /\ (lastOp.op = "addAlert" /\ lastOp.ret # NotAdded) => lastOp.ret = accepted[Len(accepted)].id

\* three alerts were accepted, the store was emptied in between, and the last
\* append returned 3
C6_Witness ==
    /\ Len(accepted) = 3
    /\ Len(alerts_) = 1
    /\ sinceReset = 1
    /\ lastOp.op = "addAlert" /\ lastOp.ret = 3

---------------------------------------------------------------------------
(* Properties of the connection manager *)

\* C9 (as claimed): a retry loop of N failed retries and then a successful one has
\* raised the attempt counter to N + 1 and reset it to 0, emitted exactly N
\* reconnectionAttempt events and one connectionStatusChanged(true) event.
C9_ReconnectLoopCounts ==
    loop.done =>
        /\ loop.peak = loop.fails + 1
        /\ loop.after = 0
        /\ loop.attempts = loop.fails
        /\ loop.statusTrue = 1

\* C10 (as claimed): with auto-reconnect enabled, from an execution failure on and
\* while the connection is down, exactly one retry is pending.
C10_ExactlyOnePendingRetry ==
    (loop.active /\ autoReconnectEnabled_ /\ ~isConnected) => PendingRetries = 1

\* C11 (as claimed): once disconnect() has returned, the next DatabaseManager call
\* is not a reconnection attempt: it emits no reconnectionAttempt event (a connect
\* or an executeQuery emits none).
C11_DisconnectCancelsRetries ==
    [][(lastCall.op = "disconnect" /\ lastCall.err = "") => lastCall'.attempts = <<>>]_vars

\* C12 (as claimed): no connectionStatusChanged event carries the value of the
\* connectionStatusChanged event before it.
C12_StatusEventsAlternate == ~statusSeen.repeated

\* the last call was a connect, a reconnect (by command or by attemptReconnect) or an
\* executeQuery that ran to its end and ended in failure
EndedInFailure ==
    /\ lastCall.op \in {"connect", "reconnect", "attemptReconnect", "executeQuery"}
    /\ ~lastCall.ok
    /\ lastCall.err \notin {"blocked", "system_error"}
    /\ lastCall.op = "attemptReconnect" => lastCall.attempts # <<>>

\* C13 (as claimed): every connect, reconnect attempt or executeQuery that ends in
\* failure emits a connectionError event.
C13_EveryFailureEmitsError == EndedInFailure => lastCall.errs >= 1

\* C14 (as claimed): after a connect or a reconnect that returned failure (its
\* connection was not opened, or was opened and failed the liveness probe),
\* isConnected() is false.
C14_FailureLeavesDisconnected ==
    (EndedInFailure /\ lastCall.op # "executeQuery") => ~isConnected

NotConnected == "Not connected to database"

\* C15 (as claimed): an executeQuery on a manager with no live connection fails with
\* NotConnected and leaves the connection state, the attempt counter and the stored
\* error unchanged.
C15_NotConnectedLeavesState ==
    [][(ConnExecute /\ ~isConnected) =>
           /\ lastCall'.err = NotConnected
           /\ UNCHANGED <<connection_, isConnected_, connectionAttemptCount_, lastError_>>]_vars

\* C16 (as claimed): with auto-reconnect enabled, an executeQuery that fails with
\* NotConnected leaves a reconnect attempt pending.
C16_NotConnectedTriggersReconnect ==
    [][(ConnExecute /\ autoReconnectEnabled_ /\ lastCall'.err = NotConnected) =>
           PendingRetries' >= 1]_vars

\* the threads inside a critical section on connectionMutex_
InCriticalSection == {t \in Threads : lk.th[t].guards >= 1}

\* C17 (as claimed): no two threads are inside a critical section on the connection
\* at once, and every read or write of the handle, the connected flag, the last
\* error and the attempt counter is made by a thread that holds the mutex.
C17_StateGuardedByMutex ==
    /\ Cardinality(InCriticalSection) <= 1
    /\ lk.access.f \in {"connection_", "isConnected_", "lastError_", "connectionAttemptCount_"} =>
           lk.access.held

---------------------------------------------------------------------------
(* Properties of the query engine *)

\* C7 (as claimed): when three ticks have each started the one enabled query and the
\* three executions have each returned the same non-empty result, exactly one alert
\* is stored and three executions are counted.
C7_OneAlertAfterThreeTicks ==
    (run.pure /\ run.ticks = 3 /\ run.done = 3) =>
        (Len(alerts_) = 1 /\ totalExecutions_ = 3)

\* C8 (as claimed): a successful result whose digest was recorded for the same query
\* within the last 5 seconds produces no alert.
C8_DuplicateResultDiscarded ==
    (lastDone.success /\ ~lastDone.empty /\ lastDone.dup) => lastDone.alertId <= 0

\* the registry holds an enabled query
SomeEnabled == \E id \in DOMAIN queries_ : queries_[id].enabled

\* C18 (as claimed): a start() on a Stopped scheduler with no live connection or
\* no enabled query leaves it Stopped with the timer off and emits no
\* monitoringStarted; any other start() on a Stopped scheduler makes it Running
\* with the timer on and emits monitoringStarted.
C18_StartNeedsConnectionAndQuery ==
    [][(SchedStart /\ ~isMonitoring_ /\ ~mutexStuck) =>
           IF isConnected /\ SomeEnabled
           THEN /\ isMonitoring_' /\ timerActive'
                /\ engineCall'.signals = <<MonitoringStarted>>
           ELSE /\ ~isMonitoring_' /\ ~timerActive'
                /\ engineCall'.signals \in {<<NotConnectedError>>, <<NoQueriesError>>}]_vars

\* C19: stop() leaves the scheduler Stopped with the timer off; while it is Stopped
\* no step starts a worker; and stop() on a Stopped scheduler changes nothing of
\* the program's state and emits no signal.
C19_StopHaltsAndIsIdempotent ==
    [][/\ SchedStop => (~isMonitoring_' /\ ~timerActive')
       /\ ~isMonitoring_ => Len(workers') <= Len(workers)
       /\ (SchedStop /\ ~isMonitoring_) =>
              /\ engineCall'.signals = <<>>
              /\ UNCHANGED <<now, storeVars, connVars, queries_, isMonitoring_, timerActive,
                             totalExecutions_, totalFailures_, queryExecutionCounts_,
                   maxConcurrentQueries_, queryHistory_, workers,
                             completions, queuedStatus>>]_vars

\* stop() was called on a scheduler that had run a tick and was Stopped again
C19_Witness ==
    /\ engineCall = EngineCall("stopMonitoring", <<>>)
    /\ now >= 1
    /\ ~isMonitoring_

\* what a connection loss notification does to a Running scheduler, and to a Stopped one
LossHandled ==
    IF isMonitoring_
    THEN /\ ~isMonitoring_' /\ ~timerActive'
         /\ engineCall' = EngineCall("onDatabaseConnectionChanged", <<MonitoringStopped, ConnectionLostError>>)
         /\ workers' = workers
    ELSE /\ engineCall'.signals = <<>>
         /\ UNCHANGED <<isMonitoring_, timerActive, queries_, totalExecutions_, totalFailures_, queryExecutionCounts_,
                   maxConcurrentQueries_,
                        queryHistory_, workers, completions, now, storeVars>>

\* C20: a connection loss notification, queued from a worker thread or delivered
\* within disconnect(), stops a Running scheduler (flag and timer off,
\* monitoringStopped then the 'connection lost' queryError emitted, no worker
\* started), after which no step starts a worker; on a Stopped scheduler it
\* changes nothing and emits nothing.
C20_ConnectionLossStopsScheduler ==
    [][/\ (SchedStatusDelivered /\ ~Head(queuedStatus)) => LossHandled
       /\ (SchedDisconnect /\ lastCall'.status = <<FALSE>>) => LossHandled
       /\ ~timerActive => Len(workers') <= Len(workers)]_vars

\* a Running scheduler that had ticked was stopped by a connection loss notification
C20_Witness ==
    /\ engineCall = EngineCall("onDatabaseConnectionChanged", <<MonitoringStopped, ConnectionLostError>>)
    /\ now >= 1
    /\ ~timerActive

\* C21 (as claimed): after stop() has returned and until the next start, no
\* completion appends an alert to the store or emits an alert event.
C21_NoAlertAfterStop ==
    [][(engineCall.op = "stopMonitoring" /\ ~isMonitoring_) =>
           /\ nextAlertId_' = nextAlertId_
           /\ alerts_' = alerts_
           /\ SchedCompleted => lastDone'.event = 0]_vars

\* C22 (as claimed): the notification that a failed execution on a worker thread
\* queues for the engine leaves a Running scheduler Running, with its timer on.
C22_QueryFailureKeepsRunning ==
    [][(SchedStatusDelivered /\ isMonitoring_) => (isMonitoring_' /\ timerActive')]_vars

\* the alert a failed result r leads to, and whether the store takes it for a duplicate
ErrorAlertOf(r) == MkAlert("WARNING", r.queryName, "Query execution failed: " \o r.errorMessage, r.queryId)
SuppressedNow(a) ==
    duplicateDetectionEnabled_ /\ isDuplicateInternal(alerts_, a, now, duplicateTimeWindow_)
\* the store accepted exactly one alert and holds it as its newest: a Warning
\* whose source is the query of r
WarningStoredFor(r) ==
    /\ nextAlertId_' = nextAlertId_ + 1
    /\ alerts_' # <<>>
    /\ alerts_'[Len(alerts_')].id = nextAlertId_
    /\ alerts_'[Len(alerts_')].type = "WARNING"
    /\ alerts_'[Len(alerts_')].querySource = r.queryId

\* C23 (as claimed): every processed completion with success = false whose alert
\* is not a duplicate stores one Warning alert whose source is the failing query.
C23_FailureBecomesWarning ==
    [][(SchedCompleted /\ ~Head(completions).success
          /\ ~SuppressedNow(ErrorAlertOf(Head(completions)))) =>
           WarningStoredFor(Head(completions))]_vars

\* C23 (amended): the same, for a query that is still in the registry when its
\* completion is processed and a store whose maximum is at least one.
C23_FailureOfRegisteredQueryBecomesWarning ==
    [][(SchedCompleted /\ ~Head(completions).success
          /\ Head(completions).queryId \in DOMAIN queries_
          /\ maxAlerts_ >= 1
          /\ ~SuppressedNow(ErrorAlertOf(Head(completions)))) =>
           WarningStoredFor(Head(completions))]_vars

\* a failed execution was processed and its Warning alert is the newest stored
C23_Witness ==
    /\ lastDone.queryId = "q1" /\ ~lastDone.success /\ lastDone.alertId > 0
    /\ alerts_ # <<>>
    /\ alerts_[Len(alerts_)].id = lastDone.alertId
    /\ alerts_[Len(alerts_)].type = "WARNING"
    /\ alerts_[Len(alerts_)].querySource = "q1"

\* C24: processing a completion emits an alert event carrying the assigned
\* identifier whenever the store accepts the alert, and emits none when the
\* append is suppressed (the sentinel is returned) or nothing is appended.
C24_EventIffAccepted ==
    [][SchedCompleted =>
           /\ nextAlertId_' # nextAlertId_ =>
                  (lastDone'.event = nextAlertId_ /\ lastDone'.alertId = nextAlertId_)
           /\ nextAlertId_' = nextAlertId_ => lastDone'.event = 0
           /\ lastDone'.alertId = NotAdded => (lastDone'.event = 0 /\ alerts_' = alerts_)]_vars

\* a completion's alert was suppressed as a duplicate of an alert accepted before
C24_Witness ==
    /\ lastDone.alertId = NotAdded
    /\ lastDone.event = 0
    /\ nextAlertId_ > 1

\* the severity the threshold rule prescribes for a non-empty result
ThresholdRule(rows, threshold, defaultType) ==
    IF Len(rows[1]) > 0 /\ Parses(rows[1][1]) /\ Stoi(rows[1][1]) >= threshold
    THEN (IF Stoi(rows[1][1]) >= 2 * threshold THEN "CRITICAL" ELSE "WARNING")
    ELSE defaultType

\* C25 (as claimed): for every non-empty result, whatever its number of rows,
\* classifyFromThreshold answers Warning for T <= n < 2T, Critical for n >= 2T and
\* the default severity for n < T or a first cell that is no integer.
C25_ThresholdClassification ==
    (classified.fn = "classifyFromThreshold" /\ classified.rows # <<>>) =>
        classified.out = ThresholdRule(classified.rows, classified.threshold, classified.defaultType)

\* an explicit severity that is recognized, and the severity the heuristic
\* prescribes for a result
Recognized(typeStr) == Lowered(typeStr) \in (CriticalNames \cup WarningNames \cup InfoNames)
HeuristicRule(cells) ==
    IF HasKeyword(cells, CriticalKeywords) THEN "CRITICAL"
    ELSE IF HasKeyword(cells, WarningKeywords) THEN "WARNING"
    ELSE "INFO"

\* C26 (as claimed): when the severity given is not a recognized one, a result is
\* classified by its cells: Critical if one holds a critical keyword, else Warning
\* if one holds a warning keyword, else Info; both by classifyAlert and for the
\* alert the engine generates for a query configured with that severity.
C26_HeuristicClassification ==
    (classified.fn \in {"classifyAlert", "generateDataAlert"} /\ ~Recognized(classified.typeStr)) =>
        classified.out = HeuristicRule(classified.cells)

\* C27 (as claimed): isSimilar answers true exactly when a stored alert within the
\* window has the severity and the source of the given alert, whatever its title
\* and message.
C27_SimilarIffSameTypeAndSource ==
    lastOp.op = "isSimilar" =>
        (lastOp.ret = 1 <=>
            \E i \in 1..Len(alerts_) :
                /\ alerts_[i].timestamp >= lastOp.at - lastOp.arg
                /\ alerts_[i].type = lastOp.alert.type
                /\ alerts_[i].querySource = lastOp.alert.querySource)

\* the alerts of store s a count-bounded query is to return: those that match,
\* and the newest maxCount of a sequence, newest first
RECURSIVE Matching(_, _)
Matching(s, type) ==
    IF s = <<>> THEN <<>>
    ELSE IF type = "any" \/ Head(s).type = type THEN <<Head(s)>> \o Matching(Tail(s), type)
    ELSE Matching(Tail(s), type)
RECURSIVE NewestFirst(_, _)
NewestFirst(s, maxCount) ==
    IF s = <<>> \/ maxCount <= 0 THEN <<>>
    ELSE <<s[Len(s)]>> \o NewestFirst(SubSeq(s, 1, Len(s) - 1), maxCount - 1)

\* C28 (as claimed): getRecentAlerts(maxCount) and getAlertsByType(type, maxCount)
\* return the min(maxCount, matching) most recently appended matching alerts,
\* the newest first.
C28_CountQueryNewestFirst ==
    /\ lastOp.op = "getRecentAlerts" =>
           lastOp.out = NewestFirst(alerts_, lastOp.arg)
    /\ lastOp.op = "getAlertsByType" =>
           lastOp.out = NewestFirst(Matching(alerts_, lastOp.alert.type), lastOp.arg)

\* the alerts of store s with a timestamp at or after since, in stored order
RECURSIVE AtOrAfter(_, _)
AtOrAfter(s, since) ==
    IF s = <<>> THEN <<>>
    ELSE IF Head(s).timestamp >= since THEN <<Head(s)>> \o AtOrAfter(Tail(s), since)
    ELSE AtOrAfter(Tail(s), since)

\* C29 (as claimed): getAlertsSince(since) returns exactly the stored alerts with
\* a timestamp at or after since, the oldest first.
C29_SinceQueryChronological ==
    lastOp.op = "getAlertsSince" => lastOp.out = AtOrAfter(alerts_, lastOp.arg)

\* the executions of query id that were dispatched and whose completion is not yet processed
InFlight(id) ==
    Cardinality({i \in 1..Len(workers) : workers[i].queryId = id})
    + Cardinality({i \in 1..Len(completions) : completions[i].queryId = id})

\* C30 (as claimed): no query has two executions in flight at once.
C30_OneExecutionPerQuery == \A id \in {"q1"} : InFlight(id) <= 1

\* the executions that were dispatched and whose worker thread has not finished
Running == Len(workers)

\* C31 (as claimed): the executions in flight never exceed maxConcurrentQueries_.
C31_InFlightWithinMaximum == Running <= maxConcurrentQueries_


---------------------------------------------------------------------------
(* SpecStats: onQueryCompleted statement by statement on the main thread,      *)
(* against a thread that reads the statistics through the getters              *)

\* the completions handled, and the instants the clock takes
MaxCompletions == 2
StatsStart == 60
StatsTimes == {60, 61, 120, 121}

\* updateStatistics had it taken no statsMutex_
updateStatistics_steps_unlocked(r) ==
    <<Do("totalExecutions_++")>>
    \o (IF r.success THEN <<>> ELSE <<Do("totalFailures_++")>>)
    \o <<Do("queryExecutionCounts_[queryId]++")>>
    \o (IF r.success /\ r.data # <<>>
        THEN <<Lock(historyMutex_), Do("queryHistory_.emplace_back"), Unlock(historyMutex_)>>
        ELSE <<>>)

\* void QueryEngine::updateStatistics(const QueryResult& result)
updateStatistics_steps(r) ==
    <<Lock(statsMutex_), Do("totalExecutions_++")>>
    \o (IF r.success THEN <<>> ELSE <<Do("totalFailures_++")>>)
    \o <<Do("queryExecutionCounts_[queryId]++")>>
    \o (IF r.success /\ r.data # <<>>
        THEN <<Lock(historyMutex_), Do("queryHistory_.emplace_back"), Unlock(historyMutex_)>>
        ELSE <<>>)
    \o <<Unlock(statsMutex_)>>

\* QueryConfig* QueryEngine::getQuery(const std::string& id)
getQuery_steps == <<Lock(queriesMutex_), Do("queries_.find"), Unlock(queriesMutex_)>>

\* void QueryEngine::processQueryResult(result): generateDataAlert or
\* generateErrorAlert, which return after getQuery if the query is not registered
processQueryResult_steps(r, known) ==
    IF (r.success /\ r.data # <<>>) \/ ~r.success
    THEN getQuery_steps
         \o (IF known THEN <<Lock(alertsMutex_), Do("addAlert"), Unlock(alertsMutex_)>> ELSE <<>>)
    ELSE <<>>

\* void QueryEngine::cleanupQueryHistory()
cleanupQueryHistory_steps == <<Lock(historyMutex_), Do("cleanup"), Unlock(historyMutex_)>>

\* void QueryEngine::onQueryCompleted(const QueryResult& result)
onQueryCompleted_steps(r, known) ==
    updateStatistics_steps(r) \o processQueryResult_steps(r, known) \o cleanupQueryHistory_steps
    \o <<Do("emit queryExecuted")>>

\* getExecutedQueriesCount(), getFailedQueriesCount(), getQueryExecutionCounts()
Getters == {"totalExecutions_", "totalFailures_", "queryExecutionCounts_"}
getter_steps(field) == <<Lock(statsMutex_), Do("return " \o field), Unlock(statsMutex_)>>

\* the statistics as a reader would find them
StatsNow == [total |-> totalExecutions_, failures |-> totalFailures_, counts |-> queryExecutionCounts_]

\* n history entries of query q1 with timestamps spread evenly from t0 to t1
SpreadHistory(n, t0, t1) ==
    [i \in 1..n |-> [queryId |-> "q1", dataHash |-> calculateResultHash(<< <<"5">> >>),
                     timestamp |-> t0 + ((i - 1) * (t1 - t0)) \div n]]

\* the histories the engine may hold at StatsStart: none, one entry short of the
\* cap within the last second, and the cap spread over the last minute
HistoryInputs ==
    { <<>>, SpreadHistory(MAX_QUERY_HISTORY - 1, StatsStart, StatsStart),
      SpreadHistory(MAX_QUERY_HISTORY, 0, StatsStart) }

StatsRegistry ==
    [id \in {"q1", "q2"} |-> QueryConfig(IF id = "q1" THEN "n1" ELSE "n2", "INFO", 0, TRUE)]
StatsResultInputs ==
    { QueryResult("q1", "n1", TRUE, "", << <<"5">> >>),
      QueryResult("q1", "n1", FALSE, "boom", <<>>),
      QueryResult("q2", "n2", TRUE, "", <<>>),
      QueryResult("q3", "n3", FALSE, "boom", <<>>) }

StatsInit ==
    /\ now = StatsStart
    /\ alerts_ = <<>>
    /\ nextAlertId_ = 1
    /\ duplicateDetectionEnabled_ = TRUE
    /\ duplicateTimeWindow_ = DefaultDuplicateTimeWindow
    /\ maxAlerts_ = DefaultMaxAlerts
    /\ lastOp = NoOp
    /\ accepted = <<>>
    /\ sinceReset = 0
    /\ ConnIdle
    /\ isMonitoring_ = FALSE
    /\ timerActive = FALSE
    /\ engineCall = NoEngineCall
    /\ totalExecutions_ = 0
    /\ totalFailures_ = 0
    /\ queryExecutionCounts_ = <<>>
    /\ maxConcurrentQueries_ = DefaultMaxConcurrentQueries
    /\ workers = <<>>
    /\ completions = <<>>
    /\ queuedStatus = <<>>
    /\ lastDone = NoDone
    /\ run = NoRun
    /\ queries_ = StatsRegistry
    /\ queryHistory_ \in HistoryInputs

\* thread t performs the next step of its call
EngineStep(t) ==
    LET th == mx.th[t]
        i == Head(th.rest)
        r == th.r
    IN /\ th.rest # <<>>
       /\ i.k = "lock" => mx.owner[i.m] = ""
       /\ mx' = [mx EXCEPT !.owner = CASE i.k = "lock" -> [@ EXCEPT ![i.m] = t]
                                        [] i.k = "unlock" -> [@ EXCEPT ![i.m] = ""]
                                        [] OTHER -> @,
                           !.th[t].rest = Tail(@),
                           !.done = IF i.f = "emit queryExecuted" THEN @ + 1 ELSE @]
       /\ totalExecutions_' = IF i.f = "totalExecutions_++" THEN totalExecutions_ + 1 ELSE totalExecutions_
       /\ totalFailures_' = IF i.f = "totalFailures_++" THEN totalFailures_ + 1 ELSE totalFailures_
       /\ queryExecutionCounts_' = IF i.f = "queryExecutionCounts_[queryId]++"
                                   THEN Counted(queryExecutionCounts_, r.queryId)
                                   ELSE queryExecutionCounts_
       /\ queryHistory_' = CASE i.f = "queryHistory_.emplace_back" -> updateHistory(queryHistory_, r, now)
                             [] i.f = "cleanup" -> cleanupQueryHistory(queryHistory_, now)
                             [] OTHER -> queryHistory_
       /\ IF i.f = "addAlert"
          THEN addAlert(AlertFor(queries_[r.queryId], r.queryId, r))
          ELSE UNCHANGED <<storeVars, lastOp>>
       /\ UNCHANGED <<connVars, queries_, schedVars, maxConcurrentQueries_, workers, completions,
                      queuedStatus, lastDone>>

\* what every step of SpecStats but EngineStep leaves alone
StatsFrame ==
    UNCHANGED <<storeVars, obsVars, connVars, engVars, statusSeen, lk, classified>>

\* a completed(result) signal reaches onQueryCompleted on the main thread
StatsCompletion ==
    \E r \in StatsResultInputs :
        /\ mx.th["main"].rest = <<>>
        /\ mx.done < MaxCompletions
        /\ mx' = [mx EXCEPT !.th["main"] =
                     [op |-> "onQueryCompleted", r |-> r,
                      rest |-> onQueryCompleted_steps(r, r.queryId \in DOMAIN queries_),
                      before |-> StatsNow]]
        /\ UNCHANGED now
        /\ StatsFrame

\* another thread calls one of the getters
StatsRead ==
    \E field \in Getters :
        /\ mx.th["reader"].rest = <<>>
        /\ mx' = [mx EXCEPT !.th["reader"] =
                     [op |-> "get", r |-> <<>>, rest |-> getter_steps(field), before |-> NoStats]]
        /\ UNCHANGED now
        /\ StatsFrame

StatsMainStep ==
    /\ EngineStep("main")
    /\ UNCHANGED <<now, accepted, sinceReset, run, statusSeen, lk, classified>>
StatsReaderStep ==
    /\ EngineStep("reader")
    /\ UNCHANGED <<now, accepted, sinceReset, run, statusSeen, lk, classified>>

\* the clock moves on
StatsTick ==
    \E t \in StatsTimes :
        /\ t > now
        /\ now' = t
        /\ UNCHANGED mx
        /\ StatsFrame

StatsNext ==
    \/ StatsCompletion
    \/ StatsRead
    \/ StatsMainStep
    \/ StatsReaderStep
    \/ StatsTick

SpecStats == StatsInit /\ [][StatsNext]_vars

\* the sum of the per-query counters
RECURSIVE SumCounts(_)
SumCounts(counts) ==
    IF DOMAIN counts = {} THEN 0
    ELSE LET id == CHOOSE x \in DOMAIN counts : TRUE
         IN counts[id] + SumCounts([y \in DOMAIN counts \ {id} |-> counts[y]])

\* the main thread is in onQueryCompleted, or has finished it, and is past updateStatistics
UpdateDone ==
    /\ mx.th["main"].op = "onQueryCompleted"
    /\ \A i \in 1..Len(mx.th["main"].rest) : mx.th["main"].rest[i] # Unlock(statsMutex_)

\* the counter of query id in counts, 0 if it has none
CountOf(counts, id) == IF id \in DOMAIN counts THEN counts[id] ELSE 0

\* C32: whenever statsMutex_ is free or held by a reader, the failure total is at
\* most the execution total and the per-query counters sum to the execution total;
\* and once updateStatistics has returned, the execution total and the counter of
\* the result's query are one higher than when the completion arrived, the failure
\* total is one higher iff the result failed, and no other counter has changed.
C32_StatisticsAtomic ==
    /\ mx.owner[statsMutex_] # "main" =>
           /\ totalFailures_ <= totalExecutions_
           /\ SumCounts(queryExecutionCounts_) = totalExecutions_
    /\ UpdateDone =>
           LET b == mx.th["main"].before
               r == mx.th["main"].r
           IN /\ totalExecutions_ = b.total + 1
              /\ totalFailures_ = b.failures + (IF r.success THEN 0 ELSE 1)
              /\ DOMAIN queryExecutionCounts_ = DOMAIN b.counts \cup {r.queryId}
              /\ \A id \in DOMAIN queryExecutionCounts_ :
                     queryExecutionCounts_[id] = CountOf(b.counts, id) + (IF id = r.queryId THEN 1 ELSE 0)

\* a reader holds statsMutex_ after a second completion, a failed one, was counted
C32_Witness ==
    /\ UpdateDone
    /\ ~mx.th["main"].r.success
    /\ mx.owner[statsMutex_] = "reader"
    /\ totalExecutions_ = 2
    /\ totalFailures_ >= 1

\* the mutexes thread t holds
HeldBy(t) == {m \in EngineMutexes : mx.owner[m] = t}

\* C34 (as claimed): no thread holds two of queriesMutex_, statsMutex_,
\* historyMutex_ and alertsMutex_ at once.
C34_OneLockAtATime == \A t \in EngineThreads : Cardinality(HeldBy(t)) <= 1

\* the main thread executes the body of cleanupQueryHistory, the last change
\* onQueryCompleted makes to the history
CleanupStep ==
    /\ StatsMainStep
    /\ Head(mx.th["main"].rest) = Do("cleanup")

\* C33: the cleanup that ends the handling of a completion leaves at most
\* MAX_QUERY_HISTORY entries, none of them older than HistoryKeepSeconds, and what
\* it discards are the entries at the front of the history, each at least as old
\* as every entry it keeps.
C33_HistoryBounded ==
    [][CleanupStep =>
          /\ Len(queryHistory_') <= MAX_QUERY_HISTORY
          /\ \A j \in 1..Len(queryHistory_') : queryHistory_'[j].timestamp >= now - HistoryKeepSeconds
          /\ \E k \in 0..Len(queryHistory_) :
                 /\ queryHistory_' = SubSeq(queryHistory_, k + 1, Len(queryHistory_))
                 /\ \A i \in 1..k, j \in 1..Len(queryHistory_') :
                        queryHistory_[i].timestamp <= queryHistory_'[j].timestamp]_vars

\* a completion was handled to its end at StatsStart, when no entry was beyond the
\* horizon, on a history that held the cap: the history is full again, its newest
\* entry is the completion's, and the oldest entry is gone
C33_Witness ==
    /\ mx.done = 1
    /\ now = StatsStart
    /\ Len(queryHistory_) = MAX_QUERY_HISTORY
    /\ queryHistory_[1].timestamp = 0
    /\ queryHistory_[MAX_QUERY_HISTORY].timestamp = StatsStart
    /\ queryHistory_ # SpreadHistory(MAX_QUERY_HISTORY, 0, StatsStart)

\* thread t is at a lock of connectionMutex_ that it already holds
SelfRelock(t) ==
    /\ lk.th[t].at = "running"
    /\ Head(lk.th[t].rest).k = "lock"
    /\ lk.owner = t

\* C35 (as claimed): no call acquires connectionMutex_ while its thread holds it,
\* and no call is left blocked on its own lock.
C35_NoSelfRelock ==
    \A t \in Threads : ~SelfRelock(t) /\ lk.th[t].at # "hung"

\* C36 (as claimed): a call that changes the value isConnected() returns emits
\* connectionStatusChanged, and the last such event carries the new value.
C36_StatusChangeAnnounced ==
    [][isConnected' # isConnected =>
          /\ lastCall'.status # <<>>
          /\ lastCall'.status[Len(lastCall'.status)] = isConnected']_vars

\* C37 (as claimed): connect(params) with invalid params returns false, emits
\* connectionError and leaves config_, connectionAttemptCount_, connection_ and
\* isConnected_ as they were, whatever configuration was stored before.
C37_ConnectValidatesParams ==
    [][\A probeOk \in BOOLEAN :
          connect("invalid", probeOk) =>
              /\ ~lastCall'.ok
              /\ lastCall'.errs >= 1
              /\ UNCHANGED <<config_, connectionAttemptCount_, connection_, isConnected_>>]_vars

\* C38: while the scheduler is Stopped, no step but startMonitoring() makes it
\* Running and no step starts a worker: a scheduler that a connection loss has
\* stopped stays Stopped when attemptReconnect re-establishes the connection.
C38_StaysStoppedAfterLoss ==
    [][(~isMonitoring_ /\ ~EngStart) =>
          /\ ~isMonitoring_'
          /\ Len(workers') <= Len(workers)]_vars

\* the scheduler was stopped by a connection loss, and the last call, an
\* attemptReconnect, has re-established the connection
C38_Witness ==
    /\ engineCall = EngineCall("onDatabaseConnectionChanged", <<MonitoringStopped, ConnectionLostError>>)
    /\ ~isMonitoring_
    /\ lastCall.op = "attemptReconnect"
    /\ lastCall.ok
    /\ isConnected

\* C39: an addAlert that returns NotAdded leaves alerts_, with every identifier
\* and timestamp in it, and nextAlertId_ as they were.
C39_SuppressedAppendNoEffect ==
    [][(CapAdd /\ lastOp'.ret = NotAdded) =>
          /\ alerts_' = alerts_
          /\ nextAlertId_' = nextAlertId_]_vars

\* an append was suppressed on a store that holds two alerts
C39_Witness ==
    /\ lastOp.op = "addAlert"
    /\ lastOp.ret = NotAdded
    /\ lastOp.at = now
    /\ Len(alerts_) = 2
    /\ nextAlertId_ = 3

\* the completion at the head of the queue is of a query that removeQuery has
\* taken out of the registry since its worker was started
OfRemovedQuery ==
    /\ completions # <<>>
    /\ Head(completions).queryId \notin DOMAIN queries_

\* C40: handling the completion of a removed query counts it in the statistics
\* and emits queryExecuted for it, calls addAlert not at all, so that the store
\* is as it was, and emits no alertGenerated.
C40_RemovedQueryCompletion ==
    [][(SchedCompleted /\ OfRemovedQuery) =>
          LET r == Head(completions)
          IN /\ totalExecutions_' = totalExecutions_ + 1
             /\ totalFailures_' = totalFailures_ + (IF r.success THEN 0 ELSE 1)
             /\ queryExecutionCounts_'[r.queryId] = CountOf(queryExecutionCounts_, r.queryId) + 1
             /\ lastDone'.executed = r.queryId
             /\ lastDone'.alertId = 0
             /\ lastDone'.event = 0
             /\ UNCHANGED <<storeVars, lastOp>>]_vars

\* the failed execution of a query no longer registered was handled: counted,
\* announced by queryExecuted, and no addAlert was called for it
C40_Witness ==
    /\ lastDone.executed = "q1"
    /\ "q1" \notin DOMAIN queries_
    /\ ~lastDone.success
    /\ lastDone.alertId = 0
    /\ totalFailures_ >= 1
    /\ queryExecutionCounts_["q1"] >= 1

===========================================================================
